---- MODULE Spec2Model ----
(***************************************************************************)
(* Channels, selector and cooperative fibers of the goscript VM            *)
(* (src/vm/src/channel.rs, scheduled by the executor of src/vm/src/vm.rs). *)
(*                                                                         *)
(* A fiber is a task of the single-threaded executor.  Between two yields  *)
(* a fiber runs alone, so one action is one scheduler turn of a channel    *)
(* operation: the call up to its first yield or return, or one retry of    *)
(* its polling loop.                                                       *)
(***************************************************************************)
EXTENDS Integers, Sequences, FiniteSets, TLC

\* ------------------------------------------------------------------ bounds
MaxCap == 2
MaxCalls == 2
\* the longest array a program starts with
MaxLen == 2

\* ------------------------------------------------------------- the universe
\* three fibers and two channels; fiber f1 sends the value 42, the others 7
Fibers == {"f1", "f2", "f3"}
Chans == {"A", "B"}
Vals == {42, 7}
ValOf(f) == IF f = "f1" THEN 42 ELSE 7

\* Option<GosValue>: None is <<>>, Some(v) is <<v>>
None == <<>>
Some(v) == <<v>>

Min(a, b) == IF a < b THEN a ELSE b

\* ------------------------------------------------------------------ Channel
\* Channel::new: capacity 0 is the rendezvous handshake, otherwise a bounded
\* FIFO (async_channel::bounded).  st is the RendezvousState tag, or
\* Open/Closed for the bounded queue; buf is the InPlace value or the queue.
\* faulty variant: the bounded queue is created one slot too large
ChannelNewOffByOne(cap) ==
    IF cap = 0
    THEN [cap |-> 0, st |-> "NotReady", buf |-> <<>>]
    ELSE [cap |-> cap + 1, st |-> "Open", buf |-> <<>>]

ChannelNew(cap) ==
    IF cap = 0
    THEN [cap |-> 0, st |-> "NotReady", buf |-> <<>>]
    ELSE [cap |-> cap, st |-> "Open", buf |-> <<>>]

IsRendezvous(ch) == ch.cap = 0

ChanLen(ch) == IF IsRendezvous(ch) THEN 0 ELSE Len(ch.buf)

ChanCap(ch) == IF IsRendezvous(ch) THEN 0 ELSE ch.cap

ChanClose(ch) ==
    IF IsRendezvous(ch)
    THEN [ch EXCEPT !.st = "Closed", !.buf = <<>>]
    ELSE [ch EXCEPT !.st = "Closed"]

\* faulty variant: try_send does not look at Closed
TrySendClosedAsReady(ch, v) ==
    IF IsRendezvous(ch)
    THEN CASE ch.st = "NotReady" -> [ch |-> ch, r |-> "Full"]
           [] ch.st = "Ready" -> [ch |-> [ch EXCEPT !.st = "InPlace", !.buf = <<v>>], r |-> "Ok"]
           [] ch.st = "InPlace" -> [ch |-> ch, r |-> "Full"]
           [] ch.st = "Closed" -> [ch |-> [ch EXCEPT !.st = "InPlace", !.buf = <<v>>], r |-> "Ok"]
    ELSE IF Len(ch.buf) >= ch.cap
         THEN [ch |-> ch, r |-> "Full"]
         ELSE [ch |-> [ch EXCEPT !.buf = Append(@, v)], r |-> "Ok"]

\* try_send: the new channel and the outcome (Ok, Full or Closed)
TrySend(ch, v) ==
    IF IsRendezvous(ch)
    THEN CASE ch.st = "NotReady" -> [ch |-> ch, r |-> "Full"]
           [] ch.st = "Ready" -> [ch |-> [ch EXCEPT !.st = "InPlace", !.buf = <<v>>], r |-> "Ok"]
           [] ch.st = "InPlace" -> [ch |-> ch, r |-> "Full"]
           [] ch.st = "Closed" -> [ch |-> ch, r |-> "Closed"]
    ELSE IF ch.st = "Closed"
         THEN [ch |-> ch, r |-> "Closed"]
         ELSE IF Len(ch.buf) >= ch.cap
              THEN [ch |-> ch, r |-> "Full"]
              ELSE [ch |-> [ch EXCEPT !.buf = Append(@, v)], r |-> "Ok"]

\* faulty variant: try_recv returns the value and leaves it in the channel
TryRecvKeepsValue(ch) ==
    IF IsRendezvous(ch)
    THEN CASE ch.st = "NotReady" -> [ch |-> [ch EXCEPT !.st = "Ready"], r |-> "Empty", v |-> None]
           [] ch.st = "Ready" -> [ch |-> ch, r |-> "Empty", v |-> None]
           [] ch.st = "InPlace" -> [ch |-> ch, r |-> "Ok", v |-> ch.buf]
           [] ch.st = "Closed" -> [ch |-> ch, r |-> "Closed", v |-> None]
    ELSE IF Len(ch.buf) > 0
         THEN [ch |-> ch, r |-> "Ok", v |-> <<Head(ch.buf)>>]
         ELSE IF ch.st = "Closed"
              THEN [ch |-> ch, r |-> "Closed", v |-> None]
              ELSE [ch |-> ch, r |-> "Empty", v |-> None]

\* faulty variant: try_recv on NotReady does not announce the receiver
TryRecvNoReady(ch) ==
    IF IsRendezvous(ch)
    THEN CASE ch.st = "NotReady" -> [ch |-> ch, r |-> "Empty", v |-> None]
           [] ch.st = "Ready" -> [ch |-> ch, r |-> "Empty", v |-> None]
           [] ch.st = "InPlace" ->
                [ch |-> [ch EXCEPT !.st = "NotReady", !.buf = <<>>], r |-> "Ok", v |-> ch.buf]
           [] ch.st = "Closed" -> [ch |-> ch, r |-> "Closed", v |-> None]
    ELSE IF Len(ch.buf) > 0
         THEN [ch |-> [ch EXCEPT !.buf = Tail(@)], r |-> "Ok", v |-> <<Head(ch.buf)>>]
         ELSE IF ch.st = "Closed"
              THEN [ch |-> ch, r |-> "Closed", v |-> None]
              ELSE [ch |-> ch, r |-> "Empty", v |-> None]

\* faulty variant: try_recv on Closed behaves as on NotReady
TryRecvReopens(ch) ==
    IF IsRendezvous(ch)
    THEN CASE ch.st = "NotReady" -> [ch |-> [ch EXCEPT !.st = "Ready"], r |-> "Empty", v |-> None]
           [] ch.st = "Ready" -> [ch |-> ch, r |-> "Empty", v |-> None]
           [] ch.st = "InPlace" ->
                [ch |-> [ch EXCEPT !.st = "NotReady", !.buf = <<>>], r |-> "Ok", v |-> ch.buf]
           [] ch.st = "Closed" -> [ch |-> [ch EXCEPT !.st = "Ready"], r |-> "Empty", v |-> None]
    ELSE IF Len(ch.buf) > 0
         THEN [ch |-> [ch EXCEPT !.buf = Tail(@)], r |-> "Ok", v |-> <<Head(ch.buf)>>]
         ELSE IF ch.st = "Closed"
              THEN [ch |-> ch, r |-> "Closed", v |-> None]
              ELSE [ch |-> ch, r |-> "Empty", v |-> None]

\* try_recv: the new channel, the outcome (Ok, Empty or Closed) and the value
TryRecv(ch) ==
    IF IsRendezvous(ch)
    THEN CASE ch.st = "NotReady" -> [ch |-> [ch EXCEPT !.st = "Ready"], r |-> "Empty", v |-> None]
           [] ch.st = "Ready" -> [ch |-> ch, r |-> "Empty", v |-> None]
           [] ch.st = "InPlace" ->
                [ch |-> [ch EXCEPT !.st = "NotReady", !.buf = <<>>], r |-> "Ok", v |-> ch.buf]
           [] ch.st = "Closed" -> [ch |-> ch, r |-> "Closed", v |-> None]
    ELSE IF Len(ch.buf) > 0
         THEN [ch |-> [ch EXCEPT !.buf = Tail(@)], r |-> "Ok", v |-> <<Head(ch.buf)>>]
         ELSE IF ch.st = "Closed"
              THEN [ch |-> ch, r |-> "Closed", v |-> None]
              ELSE [ch |-> ch, r |-> "Empty", v |-> None]


\* ------------------------------------------------------- fibers' operations
\* What a fiber may call: ChannelObj::send / recv / close, or a Selector.
\* A select case (SelectComm): typ Send carries Some(value), typ Recv None.
SendComm(c, v) == [typ |-> "Send", chan |-> c, val |-> Some(v)]
RecvComm(c) == [typ |-> "Recv", chan |-> c, val |-> None]
Comm(f) == {SendComm(c, ValOf(f)) : c \in Chans} \cup {RecvComm(c) : c \in Chans}

\* the case lists of a Selector: one or two cases, in any order, repeats included
CommLists(f) == {<<a>> : a \in Comm(f)} \cup {<<a, b>> : a \in Comm(f), b \in Comm(f)}

NoOp == [kind |-> "None", comms |-> <<>>, def |-> FALSE, rand_start |-> 0]
SendOp(c, v) == [kind |-> "Send", comms |-> <<SendComm(c, v)>>, def |-> FALSE, rand_start |-> 0]
RecvOp(c) == [kind |-> "Recv", comms |-> <<RecvComm(c)>>, def |-> FALSE, rand_start |-> 0]
CloseOp(c) == [kind |-> "Close", comms |-> <<RecvComm(c)>>, def |-> FALSE, rand_start |-> 0]
\* Selector::new: the cases, whether a default branch exists; the counter
\* pseudo_rand starts at 0 and rand_start is its value at the call's entry
SelectOp(comms, def) == [kind |-> "Select", comms |-> comms, def |-> def, rand_start |-> 0]

\* the operations fiber f can call; f1 is the fiber that uses selectors
SendOps(f) == {SendOp(c, ValOf(f)) : c \in Chans}
RecvOps == {RecvOp(c) : c \in Chans}
CloseOps == {CloseOp(c) : c \in Chans}
SelectOps(f) ==
    IF f = "f1" THEN {SelectOp(l, d) : l \in CommLists(f), d \in BOOLEAN} ELSE {}
Ops(f) == SendOps(f) \cup RecvOps \cup CloseOps \cup SelectOps(f)

\* results: RuntimeResult<()>, Option<GosValue>, RuntimeResult<(usize, Option<GosValue>)>
NoRes == [kind |-> "None", idx |-> 0, val |-> None, msg |-> ""]
OkRes(i, v) == [kind |-> "Ok", idx |-> i, val |-> v, msg |-> ""]
ErrRes(m) == [kind |-> "Err", idx |-> 0, val |-> None, msg |-> m]

VARIABLES
    chans,        \* the channels: [cap, st, buf]
    pc,           \* per fiber: "idle", "pending" (suspended in yield_now), "done"
    op,           \* per fiber: the operation called last
    res,          \* per fiber: what the last call returned
    pseudo_rand,  \* per fiber: the counter of the fiber's Selector
    probed,       \* per fiber: the try_send / try_recv calls of its last turn, in order
    yielded,      \* per fiber: whether the current call has yielded
    deposited,    \* per value: how many try_send of it have succeeded
    received,     \* per value: how many receives have returned it
    attempts,     \* per bounded channel: try_send calls while open and never received from
    asked,        \* per channel: the capacity it was created with
    ncalls,       \* the number of calls made
    plan          \* per fiber: the operations its program may call

\* the state of the dispatcher (vm.rs): fibers that run bytecode
VARIABLES
    vmrun,        \* GosVM::run: "running", "returned", or "panicked" (a Rust panic unwound it)
    entry,        \* per fiber: the entry function it was spawned with ("" if none)
    status,       \* per fiber: "none", "spawned", "ready" (in main_loop), "ended", "failed"
    cur,          \* the fiber whose task the executor is polling, or "none"
    inst_count,   \* per fiber: the iterations made of the current `for _ in 0..yield_unit`
    stack,        \* per fiber: Fiber::stack
    frames,       \* per fiber: Fiber::frames
    next_frames,  \* per fiber: Fiber::next_frames
    upvalues,     \* the UpValue cells (Rc<RefCell<UpValueState>>), by handle
    pkg,          \* the members of the package
    panic_msg,    \* per fiber: the message of its Result::Error or of its Rust panic
    nframes,      \* the number of frames made so far (names each activation)
    turn_len,     \* the instructions dispatched in the turn under way, or in the last one
    pkg_inited,   \* PackageVal::inited of the imported package (var_mapping is None)
    inits,        \* how many times the package constructor has returned (history)
    range_slot,   \* per fiber: main_loop's range_slot, the next free range slot
    range_iters   \* per fiber: the iterators of the range slots, slot 0 first

chanvars == <<chans, pc, op, res, pseudo_rand, probed, yielded, deposited, received,
              attempts, asked, ncalls, plan>>

initvars == <<pkg_inited, inits>>
rangevars == <<range_slot, range_iters>>

vmvars == <<vmrun, entry, status, cur, inst_count, stack, frames, next_frames,
            upvalues, pkg, panic_msg, nframes, turn_len, initvars, rangevars>>

\* The objects of the VM heap that the slice and map operations work on.
VARIABLES
    arrays,       \* the backing arrays (ArrayObj::vec), by array id
    slices,       \* the slice objects (SliceObj): array id, begin, end, cap_end
    map,          \* a MapObj: its zero value and its entries
    called        \* the last operation on an object: its arguments and what it returned

objvars == <<arrays, slices, map, called>>

\* the state of the type checker and of code generation
VARIABLES
    tc_objs,      \* TCObjects: the types of the program and the packages made
    checker,      \* Checker: imp_map, the errors reported, the importer's runs (history)
    lookup        \* TypeLookup: types_cache, vm_objs.metas, every Meta made for a type (history)

tcvars == <<tc_objs, checker, lookup>>

vars == <<chanvars, vmvars, objvars, tcvars>>


\* whether operation o has a receive on channel c
ReceivesOn(o, c) ==
    /\ o.kind \in {"Recv", "Select"}
    /\ \E i \in 1..Len(o.comms) : o.comms[i].typ = "Recv" /\ o.comms[i].chan = c

\* another fiber is suspended in recv, or in a select with a receive case, on c
ReceiverWaiting(f, c) ==
    \E g \in Fibers \ {f} : pc[g] = "pending" /\ ReceivesOn(op[g], c)

\* one try_send / try_recv of fiber f for case comm on the channels cs: the
\* new channels and the record of the probe
Probe(f, cs, comm, index) ==
    LET c == comm.chan
        t == IF comm.typ = "Send" THEN TrySend(cs[c], comm.val[1]) ELSE TryRecv(cs[c])
        out == CASE t.r = "Ok" -> "Ok"
                 [] t.r \in {"Full", "Empty"} -> "WouldBlock"
                 [] t.r = "Closed" -> "Closed"
    IN [cs |-> [cs EXCEPT ![c] = t.ch],
        e |-> [index |-> index, typ |-> comm.typ, chan |-> c, pre |-> cs[c].st,
               out |-> out,
               val |-> IF comm.typ = "Send" THEN comm.val ELSE t.v,
               same |-> t.ch = cs[c],
               waiting |-> ReceiverWaiting(f, c)]]

\* faulty variant: the rotation start is ignored
SelectIndexNoRotation(i, rand_start, count) == i % count

\* let index = (i + rand_start) % count
SelectIndex(i, rand_start, count) == (i + rand_start) % count

\* faulty variant: the loop over the cases stops after the first case
SelectLoopFirstOnly(f, cs, o, i, trace) ==
    LET index == SelectIndex(0, o.rand_start, Len(o.comms))
        p == Probe(f, cs, o.comms[index + 1], index)
    IN [cs |-> p.cs, trace |-> <<p.e>>]

\* for i in 0..count of Selector::select: stops at the first case that does
\* not would-block
RECURSIVE SelectLoop(_, _, _, _, _)
SelectLoop(f, cs, o, i, trace) ==
    LET count == Len(o.comms) IN
    IF i >= count
    THEN [cs |-> cs, trace |-> trace]
    ELSE LET index == SelectIndex(i, o.rand_start, count)
             p == Probe(f, cs, o.comms[index + 1], index)
         IN IF p.e.out = "WouldBlock"
            THEN SelectLoop(f, p.cs, o, i + 1, Append(trace, p.e))
            ELSE [cs |-> p.cs, trace |-> Append(trace, p.e)]

Last(s) == s[Len(s)]

Returned(trace) == trace # <<>> /\ Last(trace).out # "WouldBlock"

ClosedMsg == "channel closed!"

\* what one loop iteration returns, as Some(result), or None when it yields
SendResult(trace) ==
    CASE Last(trace).out = "Ok" -> Some(OkRes(0, None))
      [] Last(trace).out = "WouldBlock" -> None
      [] Last(trace).out = "Closed" -> Some(ErrRes(ClosedMsg))

RecvResult(trace) ==
    CASE Last(trace).out = "Ok" -> Some(OkRes(0, Last(trace).val))
      [] Last(trace).out = "WouldBlock" -> None
      [] Last(trace).out = "Closed" -> Some(OkRes(0, None))

\* faulty variant: the default branch is not looked at
SelectResultYieldsWithDefault(o, trace) ==
    IF Returned(trace)
    THEN LET e == Last(trace) IN
         IF e.typ = "Send"
         THEN IF e.out = "Ok" THEN Some(OkRes(e.index, None)) ELSE Some(ErrRes(ClosedMsg))
         ELSE IF e.out = "Ok" THEN Some(OkRes(e.index, e.val)) ELSE Some(OkRes(e.index, None))
    ELSE None

SelectResult(o, trace) ==
    IF Returned(trace)
    THEN LET e == Last(trace) IN
         IF e.typ = "Send"
         THEN IF e.out = "Ok" THEN Some(OkRes(e.index, None)) ELSE Some(ErrRes(ClosedMsg))
         ELSE IF e.out = "Ok" THEN Some(OkRes(e.index, e.val)) ELSE Some(OkRes(e.index, None))
    ELSE IF o.def THEN Some(OkRes(Len(o.comms), None)) ELSE None

\* one iteration of the loop of send, recv or select: the channels after it,
\* the probes made and the result
Pass(f, cs, o) ==
    CASE o.kind = "Send" ->
           LET p == Probe(f, cs, o.comms[1], 0)
           IN [cs |-> p.cs, trace |-> <<p.e>>, ret |-> SendResult(<<p.e>>)]
      [] o.kind = "Recv" ->
           LET p == Probe(f, cs, o.comms[1], 0)
           IN [cs |-> p.cs, trace |-> <<p.e>>, ret |-> RecvResult(<<p.e>>)]
      [] o.kind = "Select" ->
           LET l == SelectLoop(f, cs, o, 0, <<>>)
           IN [cs |-> l.cs, trace |-> l.trace, ret |-> SelectResult(o, l.trace)]

\* ---------------------------------------------------------- history (ghost)
Count(trace, typ, v) ==
    Cardinality({i \in 1..Len(trace) :
        trace[i].typ = typ /\ trace[i].out = "Ok" /\ trace[i].val = Some(v)})

\* attempts[c] is Some(n) while channel c is bounded, open and has never been
\* received from: n try_send calls so far (counted up to cap + 1)
TrackOne(cs, att, e) ==
    IF att[e.chan] = None THEN att
    ELSE IF e.typ = "Send"
         THEN [att EXCEPT ![e.chan] = Some(Min(@[1] + 1, cs[e.chan].cap + 1))]
         ELSE IF e.out = "Ok" THEN [att EXCEPT ![e.chan] = None] ELSE att

RECURSIVE Track(_, _, _)
Track(cs, att, trace) ==
    IF trace = <<>> THEN att ELSE Track(cs, TrackOne(cs, att, Head(trace)), Tail(trace))

\* ------------------------------------------------------------------ actions
\* fiber f runs one iteration of operation o and returns or yields; y is
\* whether the call had yielded before
Run(f, o, y) ==
    \E p \in {Pass(f, chans, o)} :
    /\ chans' = p.cs
    /\ op' = [op EXCEPT ![f] = o]
    /\ probed' = [probed EXCEPT ![f] = p.trace]
    /\ pc' = [pc EXCEPT ![f] = IF p.ret = None THEN "pending" ELSE "done"]
    /\ res' = [res EXCEPT ![f] = IF p.ret = None THEN NoRes ELSE p.ret[1]]
    /\ yielded' = [yielded EXCEPT ![f] = y \/ p.ret = None]
    /\ deposited' = [v \in Vals |-> deposited[v] + Count(p.trace, "Send", v)]
    /\ received' = [v \in Vals |-> received[v] + Count(p.trace, "Recv", v)]
    /\ attempts' = Track(chans, attempts, p.trace)
    /\ UNCHANGED <<vmvars, objvars, tcvars>>

\* a fiber whose program is a single operation calls it once; a fiber that
\* has the choice calls again after a call returned
CanCall(f) ==
    \/ pc[f] = "idle" /\ Cardinality(plan[f]) = 1
    \/ /\ ncalls < MaxCalls
       /\ \/ pc[f] = "idle"
          \/ pc[f] = "done" /\ Cardinality(plan[f]) > 1

\* ChannelObj::send, up to its first yield or return
CallSend(f) ==
    \E o \in plan[f] :
        /\ CanCall(f)
        /\ o.kind = "Send"
        /\ Run(f, o, FALSE)
        /\ pseudo_rand' = [pseudo_rand EXCEPT ![f] = 0]
        /\ ncalls' = ncalls + 1
        /\ UNCHANGED <<asked, plan>>

\* ChannelObj::recv, up to its first yield or return
CallRecv(f) ==
    \E o \in plan[f] :
        /\ CanCall(f)
        /\ o.kind = "Recv"
        /\ Run(f, o, FALSE)
        /\ pseudo_rand' = [pseudo_rand EXCEPT ![f] = 0]
        /\ ncalls' = ncalls + 1
        /\ UNCHANGED <<asked, plan>>

\* ChannelObj::close: never yields
CallClose(f) ==
    \E o \in plan[f] :
        LET c == o.comms[1].chan IN
        /\ CanCall(f)
        /\ o.kind = "Close"
        /\ chans' = [chans EXCEPT ![c] = ChanClose(@)]
        /\ op' = [op EXCEPT ![f] = o]
        /\ probed' = [probed EXCEPT ![f] = <<>>]
        /\ pc' = [pc EXCEPT ![f] = "done"]
        /\ res' = [res EXCEPT ![f] = OkRes(0, None)]
        /\ yielded' = [yielded EXCEPT ![f] = FALSE]
        /\ attempts' = [attempts EXCEPT ![c] = None]
        /\ pseudo_rand' = [pseudo_rand EXCEPT ![f] = 0]
        /\ ncalls' = ncalls + 1
        /\ UNCHANGED <<deposited, received, asked, plan, vmvars, objvars, tcvars>>

\* Selector::new followed by its first select: rand_start is 0 and the
\* counter becomes 1
CallSelect(f) ==
    \E o \in plan[f] :
        /\ CanCall(f)
        /\ o.kind = "Select"
        /\ Run(f, o, FALSE)
        /\ pseudo_rand' = [pseudo_rand EXCEPT ![f] = o.rand_start + 1]
        /\ ncalls' = ncalls + 1
        /\ UNCHANGED <<asked, plan>>

\* another select on the Selector the fiber used last
CallSelectAgain(f) ==
    /\ CanCall(f)
    /\ pc[f] = "done"
    /\ op[f].kind = "Select"
    /\ LET rand_start == pseudo_rand[f] IN
       /\ pseudo_rand' = [pseudo_rand EXCEPT ![f] = rand_start + 1]
       /\ Run(f, [op[f] EXCEPT !.rand_start = rand_start], FALSE)
    /\ ncalls' = ncalls + 1
    /\ UNCHANGED <<asked, plan>>

\* the executor polls a task that yielded: the loop of send, recv or select
\* makes its next iteration
Resume(f) ==
    /\ pc[f] = "pending"
    /\ Run(f, op[f], TRUE)
    /\ UNCHANGED <<pseudo_rand, asked, ncalls, plan>>

\* ------------------------------------------------ the dispatcher: its values
\* GosValue, as far as the dispatcher below looks at it: t is the variant,
\* n an integer payload, key a function key or a type, uvs the up-values of a
\* closure (handles into upvalues, one per up_ptrs entry of its function), recv
\* the bound receiver of a method closure (None or Some)
GosVal(t, n, key, uvs) == [t |-> t, n |-> n, key |-> key, uvs |-> uvs, recv |-> <<>>]
Nil == GosVal("Nil", 0, "", <<>>)
IntVal(n) == GosVal("Int", n, "", <<>>)
BoolVal(b) == GosVal("Bool", IF b THEN 1 ELSE 0, "", <<>>)
StrVal(s) == GosVal("Str", 0, s, <<>>)
Function(fkey) == GosVal("Function", 0, fkey, <<>>)
Metadata(ty) == GosVal("Metadata", 0, ty, <<>>)
\* a slice of n elements
Slice(n) == GosVal("Slice", n, "", <<>>)
\* an interface value: IfaceUnderlying::Gos(IntVal(n)) of dynamic type ty, or
\* IfaceUnderlying::None when ty is ""
Interface(ty, n) == GosVal("Interface", n, ty, <<>>)
\* an interface value over a foreign object (IfaceUnderlying::Ffi)
FfiInterface(name) == GosVal("InterfaceFfi", 0, name, <<>>)
Closure(fkey, uvs) == GosVal("Closure", 0, fkey, uvs)
MethodClosure(fkey, r) == [Closure(fkey, <<>>) EXCEPT !.recv = <<r>>]

\* get_meta of the value a TYPE_ASSERT unwraps
MetaOf(v) == Metadata(IF v.t = "Int" THEN "int" ELSE "nil")

\* Instruction: opcode, immediate, and the t2 index (the try flag of TYPE_ASSERT)
Inst(o, imm) == [op |-> o, imm |-> imm, t2 |-> 0]
InstT2(o, imm, t2) == [op |-> o, imm |-> imm, t2 |-> t2]

\* ValueDesc of an up_ptrs entry: the function that defines the variable and
\* the variable's local index
ValueDesc(func, index) == [func |-> func, index |-> index, is_up_value |-> TRUE]

\* FunctionVal: code, constant pool, up-value descriptors, number of return
\* slots and of locals (ret_zeros, local_zeros)
FunctionVal(code, consts, up_ptrs, rets, locals) ==
    [code |-> code, consts |-> consts, up_ptrs |-> up_ptrs,
     ret_count |-> rets, local_count |-> locals]

\* the names the FFI factory can construct
FfiNames == {"fmt"}

\* package members: 0 and 1 hold closures, 2..4 hold results
PkgMembers == 0..4

\* a closure call whose result goes to package member m
CallInto(load, m) ==
    <<load, Inst("PRE_CALL", 0), Inst("CALL", 0), Inst("STORE_PKG_FIELD", m), Inst("POP", 1)>>

\* the import of the package by one importer: its constructor, the function
\* constant k, is called when IMPORT pushes true
ImportGuard(k) ==
    << Inst("IMPORT", 0), Inst("JUMP_IF_NOT", 3),
       Inst("LITERAL", k), Inst("PRE_CALL", 0), Inst("CALL", 0) >>

\* for range s { body }, with the slice s and the sentinel -1 the constants
\* 0 and 1: RANGE leaves the loop on exhaustion, the key and the value are
\* dropped before body, the slice and the sentinel after the loop
RangeLoop(body) ==
    << Inst("PUSH_CONST", 0), Inst("PUSH_CONST", 1), Inst("RANGE_INIT", 0),
       Inst("RANGE", Len(body) + 2), Inst("POP", 2) >>
    \o body
    \o << Inst("JUMP", 0 - (Len(body) + 3)), Inst("POP", 2) >>
\* break: out of the innermost loop, to the POP behind it
Break == << Inst("JUMP", 1) >>
\* n range loops, each in the body of the one before
RECURSIVE NestedRanges(_)
NestedRanges(n) == IF n = 0 THEN <<>> ELSE RangeLoop(NestedRanges(n - 1))
\* the constants of a function with range loops
RangeConsts == << Slice(1), IntVal(-1) >>

\* the number of range slots of a fiber
RangePool == 16

\* ---------------------------------------------- the dispatcher: its programs
\* The function pool of the bytecode (VMObjects::functions).
\*   outer:  x := 1; get := func() {return x}; return func() {x++; return x}
\*   main_counter:  c := outer(); r2 = c(); r3 = c(); r4 = c()
\*   main_share:    c := outer(); r2 = c(); r3 = get()
\*   main_leak:     x := 0; get = func() {return x}          (x is a local of the entry)
\*   main_fail:     outer_fail()
\*   outer_fail:    x := 0; get = func() {return x}; _ = []int{}[0]
Functions ==
    [ outer |-> FunctionVal(
        << Inst("PUSH_CONST", 0), Inst("STORE_LOCAL", 1), Inst("POP", 1),
           Inst("LITERAL", 1), Inst("STORE_PKG_FIELD", 1), Inst("POP", 1),
           Inst("LITERAL", 2), Inst("STORE_LOCAL", 0), Inst("RETURN", 0) >>,
        << IntVal(1), Function("get"), Function("inc") >>, <<>>, 1, 1),
      inc |-> FunctionVal(
        << Inst("LOAD_UPVALUE", 0), Inst("PUSH_CONST", 0), Inst("ADD", 0),
           Inst("STORE_UPVALUE", 0), Inst("STORE_LOCAL", 0), Inst("RETURN", 0) >>,
        << IntVal(1) >>, << ValueDesc("outer", 1) >>, 1, 0),
      get |-> FunctionVal(
        << Inst("LOAD_UPVALUE", 0), Inst("STORE_LOCAL", 0), Inst("RETURN", 0) >>,
        <<>>, << ValueDesc("outer", 1) >>, 1, 0),
      main_counter |-> FunctionVal(
        << Inst("LITERAL", 0), Inst("PRE_CALL", 0), Inst("CALL", 0),
           Inst("STORE_LOCAL", 0), Inst("POP", 1) >>
           \o CallInto(Inst("LOAD_LOCAL", 0), 2)
           \o CallInto(Inst("LOAD_LOCAL", 0), 3)
           \o CallInto(Inst("LOAD_LOCAL", 0), 4)
           \o << Inst("RETURN", 0) >>,
        << Function("outer") >>, <<>>, 0, 1),
      main_share |-> FunctionVal(
        << Inst("LITERAL", 0), Inst("PRE_CALL", 0), Inst("CALL", 0),
           Inst("STORE_LOCAL", 0), Inst("POP", 1) >>
           \o CallInto(Inst("LOAD_LOCAL", 0), 2)
           \o CallInto(Inst("LOAD_PKG_FIELD", 1), 3)
           \o << Inst("RETURN", 0) >>,
        << Function("outer") >>, <<>>, 0, 1),
      main_leak |-> FunctionVal(
        << Inst("LITERAL", 0), Inst("STORE_PKG_FIELD", 1), Inst("POP", 1),
           Inst("RETURN", 0) >>,
        << Function("get0") >>, <<>>, 0, 1),
      get0 |-> FunctionVal(
        << Inst("LOAD_UPVALUE", 0), Inst("STORE_LOCAL", 0), Inst("RETURN", 0) >>,
        <<>>, << ValueDesc("main_leak", 0) >>, 1, 0),
      main_fail |-> FunctionVal(
        << Inst("LITERAL", 0), Inst("PRE_CALL", 0), Inst("CALL", 0), Inst("RETURN", 0) >>,
        << Function("outer_fail") >>, <<>>, 0, 0),
      outer_fail |-> FunctionVal(
        << Inst("LITERAL", 0), Inst("STORE_PKG_FIELD", 1), Inst("POP", 1),
           Inst("PUSH_CONST", 1), Inst("LOAD_INDEX_IMM", 0), Inst("RETURN", 0) >>,
        << Function("get1"), Slice(0) >>, <<>>, 0, 1),
      get1 |-> FunctionVal(
        << Inst("LOAD_UPVALUE", 0), Inst("STORE_LOCAL", 0), Inst("RETURN", 0) >>,
        <<>>, << ValueDesc("outer_fail", 0) >>, 1, 0),
      \* assert(true); assert(false)
      main_assert |-> FunctionVal(
        << Inst("PUSH_CONST", 0), Inst("ASSERT", 0),
           Inst("PUSH_CONST", 1), Inst("ASSERT", 0), Inst("RETURN", 0) >>,
        << BoolVal(TRUE), BoolVal(FALSE) >>, <<>>, 0, 0),
      \* var i interface{} = 5; _, ok := i.(string); _ = i.(int)
      main_type_try |-> FunctionVal(
        << Inst("PUSH_CONST", 0), InstT2("TYPE_ASSERT", 1, 1), Inst("POP", 2),
           Inst("PUSH_CONST", 0), InstT2("TYPE_ASSERT", 2, 0), Inst("POP", 1),
           Inst("RETURN", 0) >>,
        << Interface("int", 5), Metadata("string"), Metadata("int") >>, <<>>, 0, 0),
      \* var i interface{} = 5; _ = i.(string)
      main_type_assert |-> FunctionVal(
        << Inst("PUSH_CONST", 0), InstT2("TYPE_ASSERT", 1, 0), Inst("POP", 1),
           Inst("RETURN", 0) >>,
        << Interface("int", 5), Metadata("string") >>, <<>>, 0, 0),
      \* ffi "fmt" is constructed, ffi "nosuch" is not
      main_ffi |-> FunctionVal(
        << Inst("PUSH_CONST", 0), Inst("PUSH_CONST", 1), Inst("PUSH_CONST", 3),
           Inst("FFI", 2), Inst("POP", 3),
           Inst("PUSH_CONST", 0), Inst("PUSH_CONST", 2), Inst("PUSH_CONST", 3),
           Inst("FFI", 2), Inst("POP", 3), Inst("RETURN", 0) >>,
        << Metadata("iface"), StrVal("fmt"), StrVal("nosuch"), Metadata("sig") >>, <<>>, 0, 0),
      \* i.m() on an interface that holds a value, then on a nil interface
      main_bind |-> FunctionVal(
        << Inst("PUSH_CONST", 0), Inst("BIND_INTERFACE_METHOD", 0),
           Inst("PRE_CALL", 0), Inst("CALL", 0),
           Inst("PUSH_CONST", 1), Inst("BIND_INTERFACE_METHOD", 0),
           Inst("PRE_CALL", 0), Inst("CALL", 0), Inst("RETURN", 0) >>,
        << Interface("T", 5), Interface("", 0) >>, <<>>, 0, 0),
      method |-> FunctionVal(<< Inst("RETURN", 0) >>, <<>>, <<>>, 0, 0),
      \* for {}
      spin |-> FunctionVal(<< Inst("JUMP", -1) >>, <<>>, <<>>, 0, 0),
      short |-> FunctionVal(
        << Inst("PUSH_CONST", 0), Inst("POP", 1), Inst("RETURN", 0) >>,
        << IntVal(1) >>, <<>>, 0, 0),
      \* two packages import the package lib, one after the other
      main_import |-> FunctionVal(
        ImportGuard(0) \o ImportGuard(0) \o << Inst("RETURN", 0) >>,
        << Function("lib_init") >>, <<>>, 0, 0),
      \* the constructor of lib: var v = 7
      lib_init |-> FunctionVal(
        << Inst("PUSH_CONST", 0), Inst("RETURN_INIT_PKG", 0) >>,
        << IntVal(7) >>, <<>>, 0, 0),
      \* as many nested range loops as there are slots, and one less
      main_nest_pool |-> FunctionVal(
        NestedRanges(RangePool) \o << Inst("RETURN", 0) >>, RangeConsts, <<>>, 0, 0),
      main_nest_below |-> FunctionVal(
        NestedRanges(RangePool - 1) \o << Inst("RETURN", 0) >>, RangeConsts, <<>>, 0, 0),
      \* for { for range s { break } }
      main_break |-> FunctionVal(
        RangeLoop(Break) \o << Inst("JUMP", -9) >>, RangeConsts, <<>>, 0, 0),
      \* for { first() }
      main_first |-> FunctionVal(
        << Inst("LITERAL", 0), Inst("PRE_CALL", 0), Inst("CALL", 0), Inst("JUMP", -4) >>,
        << Function("first") >>, <<>>, 0, 0),
      \* first: for range s { return }
      first |-> FunctionVal(
        RangeLoop(<< Inst("RETURN", 0) >>) \o << Inst("RETURN", 0) >>,
        RangeConsts, <<>>, 0, 0),
      \* for range t { for range t { break }; first(); for range t {} }, t of
      \* two elements
      main_mixed |-> FunctionVal(
        RangeLoop(RangeLoop(Break)
                  \o << Inst("LITERAL", 2), Inst("PRE_CALL", 0), Inst("CALL", 0) >>
                  \o RangeLoop(<<>>))
        \o << Inst("RETURN", 0) >>,
        << Slice(2), IntVal(-1), Function("first") >>, <<>>, 0, 0),
      \* r2 = apply(seven()): the frame of apply is made before seven is called
      main_nested |-> FunctionVal(
        << Inst("LITERAL", 0), Inst("PRE_CALL", 0),
           Inst("LITERAL", 1), Inst("PRE_CALL", 0), Inst("CALL", 0), Inst("CALL", 0),
           Inst("STORE_PKG_FIELD", 2), Inst("POP", 1), Inst("RETURN", 0) >>,
        << Function("apply"), Function("seven") >>, <<>>, 0, 0),
      \* apply: func(p int) int { return p }
      apply |-> FunctionVal(
        << Inst("LOAD_LOCAL", 1), Inst("STORE_LOCAL", 0), Inst("RETURN", 0) >>,
        <<>>, <<>>, 1, 0),
      \* seven: func() int { return 7 }
      seven |-> FunctionVal(
        << Inst("PUSH_CONST", 0), Inst("STORE_LOCAL", 0), Inst("RETURN", 0) >>,
        << IntVal(7) >>, <<>>, 1, 0) ]

\* the entry functions a fiber is spawned with
Entries ==
    {"main_counter", "main_share", "main_leak", "main_fail", "main_assert",
     "main_type_try", "main_type_assert", "main_ffi", "main_bind", "spin", "short",
     "main_import", "main_nest_pool", "main_nest_below", "main_break", "main_first",
     "main_nested", "main_mixed"}
\* the entry functions of the second fiber: they touch no package member
QuietEntries == {"short", "spin", "main_ffi", "main_bind"}

\* ------------------------------------------------ the dispatcher: its turns
\* the instruction budget of one turn
yield_unit == 1024

\* Stack: slots are counted from 0
At(s, i) == s[i + 1]
SetAt(s, i, v) == [s EXCEPT ![i + 1] = v]
Push(s, v) == Append(s, v)
PopN(s, n) == SubSeq(s, 1, Len(s) - n)
Truncate(s, n) == SubSeq(s, 1, n)
Top(s) == s[Len(s)]
Zeros(n) == [i \in 1..n |-> IntVal(0)]
Range(s) == {s[i] : i \in 1..Len(s)}

\* CallFrame::with_closure; serial names the activation
CallFrame(cls, sbase, serial) ==
    [closure |-> cls, pc |-> 0, stack_base |-> sbase, local_ptrs |-> <<>>,
     referred_by |-> {}, serial |-> serial]

FuncOf(fr) == Functions[fr.closure.key]
TopFrame(f) == Top(frames[f])
CurInst(f) == At(FuncOf(TopFrame(f)).code, TopFrame(f).pc)
\* frame.pc += 1
Fetched(f) == [frames[f] EXCEPT ![Len(frames[f])].pc = @ + 1]

\* UpValue::new(desc): Open, the descriptor's frame not resolved yet; cell names
\* the variable the source captures (fiber, activation, local)
NoCell == [fiber |-> "", serial |-> 0, index |-> 0]
UpValueNew(d) ==
    [open |-> TRUE, fiber |-> "", func |-> d.func, frame |-> 0, index |-> d.index,
     val |-> Nil, cell |-> NoCell]
\* faulty variant: the up-value is closed over a zero value
UpValueCloseZero(uv, val) == [uv EXCEPT !.open = FALSE, !.val = IntVal(0)]
\* UpValue::close(val)
UpValueClose(uv, val) == [uv EXCEPT !.open = FALSE, !.val = val]

\* the up-values a strong reference leads to: closures on a stack, in a frame,
\* in a pending frame or in a package member, and the local_ptrs of the frames
Held ==
    LET vals == UNION {Range(stack[f]) : f \in Fibers} \cup Range(pkg)
                \cup UNION {{fr.closure : fr \in Range(frames[f]) \cup Range(next_frames[f])}
                            : f \in Fibers}
    IN UNION {Range(v.uvs) : v \in vals}
       \cup UNION {UNION {Range(fr.local_ptrs) : fr \in Range(frames[f])} : f \in Fibers}
\* WeakUpValue::upgrade succeeds
Upgrades(u) == u \in Held

\* the task of fiber f is being polled, or is picked by try_tick, and its next
\* instruction is o
Dispatching(f, o) ==
    /\ vmrun = "running"
    /\ status[f] = "ready"
    /\ cur \in {f, "none"}
    /\ CurInst(f).op = o

\* faulty variant: the budget is one instruction too large
YieldDueLate(n) == n = yield_unit + 1
\* the budget of the turn is used up
YieldDue(n) == n = yield_unit

\* one more instruction is dispatched in the turn of fiber f
Counted(f) == turn_len' = IF cur = f THEN turn_len + 1 ELSE 1

\* Result::Continue: the loop goes on, and after yield_unit iterations the
\* fiber yields
Continue(f) ==
    /\ inst_count' = [inst_count EXCEPT ![f] = IF YieldDue(@ + 1) THEN 0 ELSE @ + 1]
    /\ cur' = IF YieldDue(inst_count[f] + 1) THEN "none" ELSE f
    /\ Counted(f)
    /\ UNCHANGED <<status, vmrun, panic_msg, entry>>

\* the task of fiber f completes: main_loop returns and the Fiber is dropped
Dropped(f) ==
    /\ stack' = [stack EXCEPT ![f] = <<>>]
    /\ frames' = [frames EXCEPT ![f] = <<>>]
    /\ next_frames' = [next_frames EXCEPT ![f] = <<>>]

AssertMsg == "Opcode::ASSERT: not true!"
\* msg.starts_with("Opcode::ASSERT"): of the messages below only AssertMsg does
StartsWithAssert(msg) == msg = AssertMsg

\* a Rust panic in the task: it unwinds try_tick, block_on and GosVM::run
RustPanic(f, msg) ==
    /\ vmrun' = "panicked"
    /\ panic_msg' = [panic_msg EXCEPT ![f] = msg]
    /\ cur' = "none"
    /\ Counted(f)
    /\ UNCHANGED <<status, inst_count, entry, stack, frames, next_frames>>

\* faulty variant: every runtime failure panics
ErrorAlwaysPanics(f, msg) == RustPanic(f, msg)
\* Result::Error(msg): the message is printed and the loop is left; an ASSERT
\* failure panics instead
Error(f, msg) ==
    IF StartsWithAssert(msg)
    THEN RustPanic(f, msg)
    ELSE /\ panic_msg' = [panic_msg EXCEPT ![f] = msg]
         /\ status' = [status EXCEPT ![f] = "failed"]
         /\ cur' = "none"
         /\ inst_count' = [inst_count EXCEPT ![f] = 0]
         /\ Dropped(f)
         /\ Counted(f)
         /\ UNCHANGED <<vmrun, entry>>

\* Result::End: the loop is left
End(f) ==
    /\ status' = [status EXCEPT ![f] = "ended"]
    /\ cur' = "none"
    /\ inst_count' = [inst_count EXCEPT ![f] = 0]
    /\ Dropped(f)
    /\ Counted(f)
    /\ UNCHANGED <<vmrun, panic_msg, entry>>

\* the instruction leaves the stack as stk
Pushes(f, stk) ==
    /\ stack' = [stack EXCEPT ![f] = stk]
    /\ frames' = [frames EXCEPT ![f] = Fetched(f)]
    /\ UNCHANGED next_frames

\* ---------------------------------------------- the dispatcher: its actions
\* Fiber::run, first poll of the task: the entry frame is pushed and main_loop
\* allocates the locals
FiberRun(f) ==
    /\ vmrun = "running"
    /\ status[f] = "spawned"
    /\ cur = "none"
    /\ LET cls == Closure(entry[f], <<>>) IN
       /\ frames' = [frames EXCEPT ![f] = <<CallFrame(cls, 0, nframes + 1)>>]
       /\ stack' = [stack EXCEPT ![f] = Zeros(Functions[entry[f]].local_count)]
    /\ nframes' = nframes + 1
    /\ status' = [status EXCEPT ![f] = "ready"]
    /\ cur' = f
    /\ turn_len' = 0
    /\ UNCHANGED <<vmrun, entry, inst_count, next_frames, upvalues, pkg, panic_msg, chanvars, objvars, tcvars, initvars, rangevars>>

OpPushConst(f) ==
    /\ Dispatching(f, "PUSH_CONST")
    /\ Pushes(f, Push(stack[f], At(FuncOf(TopFrame(f)).consts, CurInst(f).imm)))
    /\ Continue(f)
    /\ UNCHANGED <<upvalues, pkg, nframes, chanvars, objvars, tcvars, initvars, rangevars>>

OpPop(f) ==
    /\ Dispatching(f, "POP")
    /\ Pushes(f, PopN(stack[f], CurInst(f).imm))
    /\ Continue(f)
    /\ UNCHANGED <<upvalues, pkg, nframes, chanvars, objvars, tcvars, initvars, rangevars>>

OpLoadLocal(f) ==
    /\ Dispatching(f, "LOAD_LOCAL")
    /\ Pushes(f, Push(stack[f], At(stack[f], TopFrame(f).stack_base + CurInst(f).imm)))
    /\ Continue(f)
    /\ UNCHANGED <<upvalues, pkg, nframes, chanvars, objvars, tcvars, initvars, rangevars>>

\* the value on top of the stack (rhs_index -1) is copied into the local
OpStoreLocal(f) ==
    /\ Dispatching(f, "STORE_LOCAL")
    /\ Pushes(f, SetAt(stack[f], TopFrame(f).stack_base + CurInst(f).imm, Top(stack[f])))
    /\ Continue(f)
    /\ UNCHANGED <<upvalues, pkg, nframes, chanvars, objvars, tcvars, initvars, rangevars>>

OpAdd(f) ==
    /\ Dispatching(f, "ADD")
    /\ LET s == stack[f] IN
       Pushes(f, Push(PopN(s, 2), IntVal(At(s, Len(s) - 2).n + Top(s).n)))
    /\ Continue(f)
    /\ UNCHANGED <<upvalues, pkg, nframes, chanvars, objvars, tcvars, initvars, rangevars>>

OpJump(f) ==
    /\ Dispatching(f, "JUMP")
    /\ frames' = [frames EXCEPT ![f] =
                    [Fetched(f) EXCEPT ![Len(frames[f])].pc = @ + CurInst(f).imm]]
    /\ Continue(f)
    /\ UNCHANGED <<stack, next_frames, upvalues, pkg, nframes, chanvars, objvars, tcvars, initvars, rangevars>>

OpLoadPkgField(f) ==
    /\ Dispatching(f, "LOAD_PKG_FIELD")
    /\ Pushes(f, Push(stack[f], At(pkg, CurInst(f).imm)))
    /\ Continue(f)
    /\ UNCHANGED <<upvalues, pkg, nframes, chanvars, objvars, tcvars, initvars, rangevars>>

OpStorePkgField(f) ==
    /\ Dispatching(f, "STORE_PKG_FIELD")
    /\ pkg' = SetAt(pkg, CurInst(f).imm, Top(stack[f]))
    /\ Pushes(f, stack[f])
    /\ Continue(f)
    /\ UNCHANGED <<upvalues, nframes, chanvars, objvars, tcvars, initvars, rangevars>>

BoundsMsg == "index out of bounds"

\* the slot an Open up-value resolves to: the local of the frame its
\* descriptor names, on the stack of the fiber that runs
Resolves(f, uv) == uv.frame < Len(frames[f])
SlotOf(f, uv) == At(frames[f], uv.frame).stack_base + uv.index

\* UpValue::value
UpValueValue(f, uv) == IF uv.open THEN At(stack[f], SlotOf(f, uv)) ELSE uv.val

OpLoadUpvalue(f) ==
    /\ Dispatching(f, "LOAD_UPVALUE")
    /\ LET uv == upvalues[At(TopFrame(f).local_ptrs, CurInst(f).imm)] IN
       IF uv.open /\ ~Resolves(f, uv)
       THEN RustPanic(f, BoundsMsg)
       ELSE /\ Pushes(f, Push(stack[f], UpValueValue(f, uv)))
            /\ Continue(f)
    /\ UNCHANGED <<upvalues, pkg, nframes, chanvars, objvars, tcvars, initvars, rangevars>>

\* UpValue::set_value on a Closed up-value
SetValue(u, uv, val) == [upvalues EXCEPT ![u].val = val]

\* UpValue::set_value with the value on top of the stack
OpStoreUpvalue(f) ==
    /\ Dispatching(f, "STORE_UPVALUE")
    /\ LET u == At(TopFrame(f).local_ptrs, CurInst(f).imm)
           uv == upvalues[u]
       IN IF uv.open /\ ~Resolves(f, uv)
          THEN RustPanic(f, BoundsMsg) /\ UNCHANGED upvalues
          ELSE /\ IF uv.open
                  THEN /\ Pushes(f, SetAt(stack[f], SlotOf(f, uv), Top(stack[f])))
                       /\ UNCHANGED upvalues
                  ELSE /\ upvalues' = SetValue(u, uv, Top(stack[f]))
                       /\ Pushes(f, stack[f])
               /\ Continue(f)
    /\ UNCHANGED <<pkg, nframes, chanvars, objvars, tcvars, initvars, rangevars>>

IndexMsg == "index out of range"

\* vm_util::load_index_int on a slice; t2 is 0
OpLoadIndexImm(f) ==
    /\ Dispatching(f, "LOAD_INDEX_IMM")
    /\ IF CurInst(f).imm < Top(stack[f]).n
       THEN /\ Pushes(f, Push(PopN(stack[f], 1), IntVal(0)))
            /\ Continue(f)
       ELSE Error(f, IndexMsg)
    /\ UNCHANGED <<upvalues, pkg, nframes, chanvars, objvars, tcvars, initvars, rangevars>>

NilMsg == "access nil interface"

OpBindInterfaceMethod(f) ==
    /\ Dispatching(f, "BIND_INTERFACE_METHOD")
    /\ LET val == Top(stack[f]) IN
       IF val.key = ""
       THEN Error(f, NilMsg)
       ELSE /\ Pushes(f, Push(PopN(stack[f], 1), MethodClosure("method", IntVal(val.n))))
            /\ Continue(f)
    /\ UNCHANGED <<upvalues, pkg, nframes, chanvars, objvars, tcvars, initvars, rangevars>>

OpAssert(f) ==
    /\ Dispatching(f, "ASSERT")
    /\ IF Top(stack[f]).n = 1
       THEN /\ Pushes(f, PopN(stack[f], 1))
            /\ Continue(f)
       ELSE Error(f, AssertMsg)
    /\ UNCHANGED <<upvalues, pkg, nframes, chanvars, objvars, tcvars, initvars, rangevars>>

UnimplementedMsg == "not implemented"

\* the interface is popped and its value pushed; a failed assertion in the
\* non-try form reaches unimplemented!(), a Rust panic

OpTypeAssert(f) ==
    /\ Dispatching(f, "TYPE_ASSERT")
    /\ LET inst == CurInst(f)
           iface == Top(stack[f])
           val == IF iface.t = "Interface" /\ iface.key # "" THEN IntVal(iface.n) ELSE Nil
           ok == At(FuncOf(TopFrame(f)).consts, inst.imm) = MetaOf(val)
           do_try == inst.t2 > 0
           pushed == Push(PopN(stack[f], 1), val)
       IN IF ~do_try /\ ~ok
          THEN RustPanic(f, UnimplementedMsg)
          ELSE /\ Pushes(f, IF do_try THEN Push(pushed, BoolVal(ok)) ELSE pushed)
               /\ Continue(f)
    /\ UNCHANGED <<upvalues, pkg, nframes, chanvars, objvars, tcvars, initvars, rangevars>>

FfiMsg == "ffi: no such name"

\* FfiFactory::create_by_name with the name below the parameters
OpFfi(f) ==
    /\ Dispatching(f, "FFI")
    /\ LET stk == PopN(stack[f], 1)
           name == At(stk, Len(stk) - CurInst(f).imm + 1)
       IN IF name.key \in FfiNames
          THEN /\ Pushes(f, Push(stk, FfiInterface(name.key)))
               /\ Continue(f)
          ELSE Error(f, FfiMsg)
    /\ UNCHANGED <<upvalues, pkg, nframes, chanvars, objvars, tcvars, initvars, rangevars>>

Max(S) == CHOOSE x \in S : \A y \in S : y <= x

\* LITERAL's search for the frame of the function that defines the variable:
\* the frames from the top down to index 1; -1 if none is found
FrameSearch(f, func) ==
    LET hits == {i \in 1..(Len(frames[f]) - 1) : At(frames[f], i).closure.key = func}
    IN IF hits = {} THEN -1 ELSE Max(hits)

\* the activation that holds the variable: the nearest frame of the function
CellOf(f, d) ==
    LET hits == {i \in 0..(Len(frames[f]) - 1) : At(frames[f], i).closure.key = d.func}
    IN IF hits = {} THEN NoCell
       ELSE [fiber |-> f, serial |-> At(frames[f], Max(hits)).serial, index |-> d.index]

\* LITERAL of a function constant: ClosureObj::new_gos makes one Open up-value
\* per up_ptrs entry; each is given its frame index and registered with
\* add_referred_by on the frame found
OpLiteral(f) ==
    /\ Dispatching(f, "LITERAL")
    /\ LET fkey == At(FuncOf(TopFrame(f)).consts, CurInst(f).imm).key
           ups == Functions[fkey].up_ptrs
           base == Len(upvalues)
           found == [j \in 1..Len(ups) |-> FrameSearch(f, ups[j].func)]
           fresh == [j \in 1..Len(ups) |->
                      [UpValueNew(ups[j]) EXCEPT
                         !.frame = IF found[j] >= 0 THEN found[j] ELSE 0,
                         !.fiber = f,
                         !.cell = CellOf(f, ups[j])]]
           frs == [i \in 1..Len(frames[f]) |->
                     [Fetched(f)[i] EXCEPT !.referred_by = @ \cup
                        {[index |-> ups[j].index, uv |-> base + j] :
                            j \in {k \in 1..Len(ups) : found[k] = i - 1}}]]
       IN /\ upvalues' = upvalues \o fresh
          /\ frames' = [frames EXCEPT ![f] = frs]
          /\ stack' = [stack EXCEPT ![f] =
                         Push(@, Closure(fkey, [j \in 1..Len(ups) |-> base + j]))]
    /\ Continue(f)
    /\ UNCHANGED <<next_frames, pkg, nframes, chanvars, objvars, tcvars, initvars, rangevars>>

\* the closure is popped, its frame is made on the stack top, the return
\* slots and the receiver are pushed
OpPreCall(f) ==
    /\ Dispatching(f, "PRE_CALL")
    /\ LET cls == Top(stack[f])
           stk == PopN(stack[f], 1)
           next_frame == CallFrame(cls, Len(stk), nframes + 1)
       IN /\ stack' = [stack EXCEPT ![f] =
                         stk \o Zeros(Functions[cls.key].ret_count) \o cls.recv]
          /\ next_frames' = [next_frames EXCEPT ![f] = Append(@, next_frame)]
    /\ frames' = [frames EXCEPT ![f] = Fetched(f)]
    /\ nframes' = nframes + 1
    /\ Continue(f)
    /\ UNCHANGED <<upvalues, pkg, chanvars, objvars, tcvars, initvars, rangevars>>

\* faulty variant: CALL takes the oldest pending frame
NextFramesPopOldest(nf) == Head(nf)
\* self.next_frames.pop(): the frame of the last PRE_CALL
NextFramesPop(nf) == Top(nf)

\* the pending frame gets the closure's up-values as local_ptrs (the pool has
\* no pointer locals) and is pushed; the locals are allocated
OpCall(f) ==
    /\ Dispatching(f, "CALL")
    /\ LET nframe == NextFramesPop(next_frames[f])
           func == Functions[nframe.closure.key]
       IN /\ next_frames' = [next_frames EXCEPT ![f] = PopN(@, 1)]
          /\ frames' = [frames EXCEPT ![f] =
                          Append(Fetched(f), [nframe EXCEPT !.local_ptrs = nframe.closure.uvs])]
          /\ stack' = [stack EXCEPT ![f] = @ \o Zeros(func.local_count)]
    /\ Continue(f)
    /\ UNCHANGED <<upvalues, pkg, nframes, chanvars, objvars, tcvars, initvars, rangevars>>

\* faulty variant: RETURN closes nothing
ClosedAtReturnNone(f) == upvalues
\* RETURN closes the up-values registered on the frame: each weak reference
\* that upgrades is closed over a clone of the local's value
ClosedAtReturn(f) ==
    LET fr == TopFrame(f) IN
    [u \in DOMAIN upvalues |->
        IF Upgrades(u) /\ \E r \in fr.referred_by : r.uv = u
        THEN LET r == CHOOSE r \in fr.referred_by : r.uv = u
             IN UpValueClose(upvalues[u], At(stack[f], fr.stack_base + r.index))
        ELSE upvalues[u]]

\* RETURN: close, truncate the stack to the return values, pop the frame; the
\* fiber ends with its last frame
OpReturn(f) ==
    /\ Dispatching(f, "RETURN")
    /\ upvalues' = ClosedAtReturn(f)
    /\ IF Len(frames[f]) = 1
       THEN End(f)
       ELSE /\ stack' = [stack EXCEPT ![f] =
                           Truncate(@, TopFrame(f).stack_base + FuncOf(TopFrame(f)).ret_count)]
            /\ frames' = [frames EXCEPT ![f] = PopN(@, 1)]
            /\ UNCHANGED next_frames
            /\ Continue(f)
    /\ UNCHANGED <<pkg, nframes, chanvars, objvars, tcvars, initvars, rangevars>>

\* IMPORT: whether the package has not been initialized
OpImport(f) ==
    /\ Dispatching(f, "IMPORT")
    /\ Pushes(f, Push(stack[f], BoolVal(~pkg_inited)))
    /\ Continue(f)
    /\ UNCHANGED <<upvalues, pkg, nframes, chanvars, objvars, tcvars, initvars, rangevars>>

OpJumpIfNot(f) ==
    /\ Dispatching(f, "JUMP_IF_NOT")
    /\ stack' = [stack EXCEPT ![f] = PopN(@, 1)]
    /\ frames' = [frames EXCEPT ![f] =
                    IF Top(stack[f]).n = 0
                    THEN [Fetched(f) EXCEPT ![Len(frames[f])].pc = @ + CurInst(f).imm]
                    ELSE Fetched(f)]
    /\ Continue(f)
    /\ UNCHANGED <<next_frames, upvalues, pkg, nframes, chanvars, objvars, tcvars, initvars, rangevars>>

\* PackageVal::var_mapping of the package: its variable 0 is member 2
VarMapping == << 2 >>

\* RETURN_INIT_PKG: as RETURN, but the values left on the stack are moved into
\* the package's variables (Stack::init_pkg_vars); nothing marks the package
\* initialized
OpReturnInitPkg(f) ==
    /\ Dispatching(f, "RETURN_INIT_PKG")
    /\ upvalues' = ClosedAtReturn(f)
    /\ pkg' = [m \in DOMAIN pkg |->
                 IF \E j \in DOMAIN VarMapping : VarMapping[j] = m - 1
                 THEN At(stack[f], TopFrame(f).stack_base
                                   + (CHOOSE j \in DOMAIN VarMapping : VarMapping[j] = m - 1) - 1)
                 ELSE pkg[m]]
    /\ inits' = inits + 1
    /\ IF Len(frames[f]) = 1
       THEN End(f)
       ELSE /\ stack' = [stack EXCEPT ![f] = Truncate(@, TopFrame(f).stack_base)]
            /\ frames' = [frames EXCEPT ![f] = PopN(@, 1)]
            /\ UNCHANGED next_frames
            /\ Continue(f)
    /\ UNCHANGED <<nframes, pkg_inited, chanvars, objvars, tcvars, rangevars>>

SlotMsg == "assertion failed: range_slot < 16"

\* range_init! on a slice: the iterator of a slot
SliceIter(t) == [index |-> 0, end |-> t.n]

\* RANGE_INIT: the sentinel on the stack top is replaced by the next slot,
\* range_slot is counted up and asserted to be below the pool size
OpRangeInit(f) ==
    /\ Dispatching(f, "RANGE_INIT")
    /\ range_slot' = [range_slot EXCEPT ![f] = @ + 1]
    /\ LET len == Len(stack[f])
           t == At(stack[f], len - 2)
           mark == range_slot[f]
       IN  IF mark + 1 < RangePool
           THEN /\ range_iters' = [range_iters EXCEPT ![f] =
                                     [i \in 1..Max({Len(@), mark + 1}) |->
                                         IF i = mark + 1 THEN SliceIter(t) ELSE @[i]]]
                /\ Pushes(f, SetAt(stack[f], len - 1, IntVal(mark)))
                /\ Continue(f)
           ELSE /\ RustPanic(f, SlotMsg)
                /\ UNCHANGED range_iters
    /\ UNCHANGED <<upvalues, pkg, nframes, chanvars, objvars, tcvars, initvars>>

\* faulty variant: leaving a loop gives every slot back
SlotReleasedAll(n) == 0
\* range_slot -= 1
SlotReleased(n) == n - 1

\* RANGE: the iterator of the slot named on the stack top is advanced; the
\* key and the value are pushed, or the loop is left and the slot count goes
\* down by one
OpRange(f) ==
    /\ Dispatching(f, "RANGE")
    /\ LET mark == Top(stack[f]).n
           it == range_iters[f][mark + 1]
       IN  IF it.index < it.end
           THEN /\ range_iters' = [range_iters EXCEPT ![f][mark + 1].index = @ + 1]
                /\ Pushes(f, stack[f] \o << IntVal(it.index), IntVal(0) >>)
                /\ UNCHANGED range_slot
           ELSE /\ frames' = [frames EXCEPT ![f] =
                                [Fetched(f) EXCEPT ![Len(frames[f])].pc = @ + CurInst(f).imm]]
                /\ range_slot' = [range_slot EXCEPT ![f] = SlotReleased(@)]
                /\ UNCHANGED <<stack, next_frames, range_iters>>
    /\ Continue(f)
    /\ UNCHANGED <<upvalues, pkg, nframes, chanvars, objvars, tcvars, initvars>>

\* a task the executor can poll: a fiber that was spawned or that yielded
\* (yield_now wakes the task before it suspends)
Runnable(f) ==
    \/ status[f] \in {"spawned", "ready"}
    \/ pc[f] = "pending"
    \/ pc[f] = "idle" /\ plan[f] # {}
    \/ pc[f] = "done" /\ Cardinality(plan[f]) > 1

\* GosVM::run: try_tick finds no task and the loop is left
RunReturn ==
    /\ vmrun = "running"
    /\ cur = "none"
    /\ \A f \in Fibers : ~Runnable(f)
    /\ vmrun' = "returned"
    /\ UNCHANGED <<entry, status, cur, inst_count, stack, frames, next_frames,
                   upvalues, pkg, panic_msg, nframes, turn_len, chanvars, objvars, tcvars, initvars, rangevars>>

StepVM(f) ==
    \/ FiberRun(f)
    \/ OpPushConst(f)
    \/ OpPop(f)
    \/ OpLoadLocal(f)
    \/ OpStoreLocal(f)
    \/ OpAdd(f)
    \/ OpJump(f)
    \/ OpLoadPkgField(f)
    \/ OpStorePkgField(f)
    \/ OpLoadUpvalue(f)
    \/ OpStoreUpvalue(f)
    \/ OpLoadIndexImm(f)
    \/ OpBindInterfaceMethod(f)
    \/ OpAssert(f)
    \/ OpTypeAssert(f)
    \/ OpFfi(f)
    \/ OpLiteral(f)
    \/ OpPreCall(f)
    \/ OpCall(f)
    \/ OpReturn(f)
    \/ OpImport(f)
    \/ OpJumpIfNot(f)
    \/ OpReturnInitPkg(f)
    \/ OpRangeInit(f)
    \/ OpRange(f)

\* ---------------------------------------------------------- slices and arrays
\* usize: isize values cast with `as usize` wrap modulo the word (the width is
\* scaled down; every index of the model is far below it)
UsizeModulus == 65536
AsUsize(x) == IF x < 0 THEN x + UsizeModulus ELSE x
\* the % of Rust on isize: the remainder has the sign of the dividend
RustRemNotTaken(a, b) == a - b
RustRem(a, b) == IF a >= 0 THEN a % b ELSE 0 - ((0 - a) % b)

\* RuntimeResult and a Rust panic
OkIndices(bi, ei, cap) == [kind |-> "Ok", bi |-> bi, ei |-> ei, cap |-> cap]
OkVal(v) == [kind |-> "Ok", val |-> v]
OkUnit == [kind |-> "Ok"]
IndexErr(i) == [kind |-> "Err", msg |-> "index out of range", index |-> i]
Panicked == [kind |-> "Panic"]

\* SliceObj::check_indices. The additions on usize overflow when a negative
\* argument was cast: a debug build panics there, a release build wraps, so
\* both outcomes are possible.
CheckIndices(this_begin, this_len, this_cap, begin, end, max) ==
    LET bsum == this_begin + AsUsize(begin)
        bi == bsum % UsizeModulus
        this_len_p1 == this_len + 1
        esum == this_begin + AsUsize(RustRem(this_len_p1 + end, this_len_p1))
        ei == esum % UsizeModulus
        cap == IF max < 0 THEN this_cap ELSE max
        wrapped == IF bi > this_cap THEN IndexErr(begin)
                   ELSE IF ei < bi THEN IndexErr(end)
                   ELSE IF cap > this_cap THEN IndexErr(max)
                   ELSE OkIndices(bi, ei, cap)
    IN  IF bsum >= UsizeModulus THEN {Panicked, wrapped}
        ELSE IF bi > this_cap THEN {IndexErr(begin)}
        ELSE IF esum >= UsizeModulus THEN {Panicked, wrapped}
        ELSE {wrapped}

\* a SliceObj over array a
SliceObj(a, r) == [array |-> a, begin |-> r.bi, end |-> r.ei, cap_end |-> r.cap]
SliceLen(s) == s.end - s.begin
SliceCap(s) == s.cap_end - s.begin
\* SliceObj::range, as indices of a sequence
SliceRange(s) == (s.begin + 1)..s.end

\* SliceObj::with_array: the outcomes, each with the slice it makes
SliceObjWithArray(arrs, a, begin, end) ==
    CheckIndices(0, Len(arrs[a]), Len(arrs[a]), begin, end, -1)

\* SliceObj::slice
SliceObjSlice(s, begin, end, max) ==
    CheckIndices(s.begin, SliceLen(s), s.cap_end, begin, end, max)

\* ArrayObj::get
ArrayObjGet(data, i) ==
    IF i >= Len(data) THEN IndexErr(i) ELSE OkVal(data[i + 1])

\* SliceObj::get
SliceObjGet(arrs, s, i) == ArrayObjGet(arrs[s.array], s.begin + i)

\* ArrayObj::set
ArrayObjSet(data, i, val) ==
    IF i >= Len(data) THEN IndexErr(i)
    ELSE [kind |-> "Ok", data |-> [data EXCEPT ![i + 1] = val]]

\* SliceObj::set: self.array_obj().set(i, val), the index as it was given
SliceObjSet(arrs, s, i, val) == ArrayObjSet(arrs[s.array], i, val)

\* the fields of a slice after push and append moved its end
Extended(s, new_end) ==
    [s EXCEPT !.end = new_end,
              !.cap_end = IF s.cap_end < new_end THEN new_end ELSE s.cap_end]

\* SliceObj::push: the backing array and the slice afterwards, or the panic of
\* data[self.end()] beyond the array
SliceObjPush(data, s, val) ==
    IF Len(data) = SliceLen(s)
    THEN [kind |-> "Ok", data |-> Append(data, val), slice |-> Extended(s, s.end + 1)]
    ELSE IF s.end < Len(data)
    THEN [kind |-> "Ok", data |-> [data EXCEPT ![s.end + 1] = val],
          slice |-> Extended(s, s.end + 1)]
    ELSE Panicked

\* SliceObj::append: odata is the backing array of other (data itself when
\* the two slices share it).
SliceObjAppend(data, s, odata, other, sharing) ==
    LET new_end == s.end + SliceLen(other)
        after_end_len == Len(data) - s.end
        cut == SubSeq(data, 1, s.end)
        src == IF sharing THEN data ELSE odata
        vals == SubSeq(src, other.begin + 1, other.end)
    IN  IF after_end_len < 0
        \* data.len() - self.end() below zero: overflow, or the range
        \* data[self.end()..new_end] beyond the array
        THEN Panicked
        ELSE IF after_end_len <= SliceLen(other)
        THEN IF sharing /\ other.end > Len(cut)
             \* extend_from_within with a range beyond the truncated vector
             THEN Panicked
             ELSE [kind |-> "Ok", data |-> cut \o vals, slice |-> Extended(s, new_end)]
        ELSE [kind |-> "Ok",
              data |-> [i \in 1..Len(data) |->
                            IF i > s.end /\ i <= new_end THEN vals[i - s.end] ELSE data[i]],
              slice |-> Extended(s, new_end)]

\* ----------------------------------------------------------------------- maps
MapKeys == {1, 2}
\* MapObj::new
MapObjNew(zero_val) == [zero_val |-> zero_val, map |-> <<>>]
Has(m, k) == k \in DOMAIN m.map
\* MapObj::insert
MapObjInsert(m, k, v) ==
    [m EXCEPT !.map = [x \in DOMAIN m.map \cup {k} |-> IF x = k THEN v ELSE m.map[x]]]
\* MapObj::get: the value and the found flag; m is borrowed immutably, so the
\* map afterwards is m
MapObjGetTouches(m, k) ==
    [val |-> IF Has(m, k) THEN m.map[k] ELSE m.zero_val, ok |-> Has(m, k),
     m |-> IF Has(m, k) THEN m ELSE MapObjInsert(m, k, m.zero_val)]
MapObjGet(m, k) ==
    [val |-> IF Has(m, k) THEN m.map[k] ELSE m.zero_val, ok |-> Has(m, k), m |-> m]
\* MapObj::delete
MapObjDelete(m, k) == [m EXCEPT !.map = [x \in DOMAIN m.map \ {k} |-> m.map[x]]]
\* MapObj::touch_key
MapObjTouchKey(m, k) == IF Has(m, k) THEN m ELSE MapObjInsert(m, k, m.zero_val)

\* --------------------------------------------------- operations on the objects
\* the array every slice of the model is made from
TheArray == 1
\* the slice objects a program makes, and the number of values of one append
SliceIds == {1, 2}
AppendLens == {1, 2}
\* push and append grow an array by at most one element beyond MaxLen
MaxData == MaxLen + 1
\* no operation yet
NoCall == [op |-> "none", s |-> 0, args |-> <<>>, ret |-> OkUnit, before |-> <<>>]
Call(o, s, args, ret, before) ==
    [op |-> o, s |-> s, args |-> args, ret |-> ret, before |-> before]
\* a Rust panic ends the process
Alive == called.ret.kind # "Panic"
\* the arguments of slice expressions: -1 (absent) and the indices up to one
\* beyond the longest array
IndexArgs == -1..(MaxLen + 1)
\* the values append and push add: the multiples of ten after the slice's length
NextVals(s, n) == [j \in 1..n |-> 10 * (SliceLen(s) + j)]

\* the objects a program starts with: arrays and maps
ObjInitWith(arrs, maps) ==
    /\ arrays = arrs
    /\ slices = <<>>
    /\ map = maps
    /\ called = NoCall
\* an array of n elements 1..n
ArrayOf(n) == [i \in 1..n |-> i]

\* GosValue::slice_with_array on the array
CallWithArray ==
    /\ Alive
    /\ arrays # <<>>
    /\ Len(slices) < Cardinality(SliceIds)
    /\ \E begin \in IndexArgs, end \in IndexArgs :
        \E r \in SliceObjWithArray(arrays, TheArray, begin, end) :
            /\ slices' = IF r.kind = "Ok" THEN Append(slices, SliceObj(TheArray, r)) ELSE slices
            /\ called' = Call("with_array", 0, <<begin, end, -1>>, r, <<>>)
    /\ UNCHANGED <<arrays, map, chanvars, vmvars, tcvars>>

\* SLICE and SLICE_FULL on a slice
CallSlice ==
    /\ Alive
    /\ Len(slices) < Cardinality(SliceIds)
    /\ \E i \in 1..Len(slices), begin \in IndexArgs, end \in IndexArgs, max \in IndexArgs :
        \E r \in SliceObjSlice(slices[i], begin, end, max) :
            /\ slices' = IF r.kind = "Ok"
                         THEN Append(slices, SliceObj(slices[i].array, r)) ELSE slices
            /\ called' = Call("slice", i, <<begin, end, max>>, r, <<>>)
    /\ UNCHANGED <<arrays, map, chanvars, vmvars, tcvars>>

\* what push and append leave behind
MutatedWith(o, i, args, r, before) ==
    /\ called' = Call(o, i, args, [kind |-> r.kind], before)
    /\ IF r.kind = "Ok"
       THEN /\ arrays' = [arrays EXCEPT ![slices[i].array] = r.data]
            /\ slices' = [slices EXCEPT ![i] = r.slice]
       ELSE UNCHANGED <<arrays, slices>>
    /\ UNCHANGED <<map, chanvars, vmvars, tcvars>>

Mutated(o, i, args, r) ==
    MutatedWith(o, i, args, r, [arrays |-> arrays, slices |-> slices])

CallPush ==
    /\ Alive
    /\ \E i \in 1..Len(slices) :
        /\ slices[i].end < MaxData
        /\ Mutated("push", i, NextVals(slices[i], 1),
                   SliceObjPush(arrays[slices[i].array], slices[i], NextVals(slices[i], 1)[1]))

\* APPEND with values: they are packed into a slice over an array of their own
CallAppend ==
    /\ Alive
    /\ \E i \in 1..Len(slices), n \in AppendLens :
        /\ slices[i].end + n <= MaxData
        /\ LET vs == NextVals(slices[i], n)
               other == [array |-> 0, begin |-> 0, end |-> n, cap_end |-> n]
           IN  Mutated("append", i, vs,
                       SliceObjAppend(arrays[slices[i].array], slices[i], vs, other, FALSE))

\* APPEND with a slice of the same backing array (append(a, b...))
CallAppendSlice ==
    /\ Alive
    /\ \E i \in 1..Len(slices), j \in 1..Len(slices) :
        /\ slices[i].end + SliceLen(slices[j]) <= MaxData
        /\ SliceLen(slices[j]) > 0
        /\ LET data == arrays[slices[i].array]
               other == slices[j]
           IN  MutatedWith("append", i, SubSeq(data, other.begin + 1, other.end),
                           SliceObjAppend(data, slices[i], data, other,
                                          slices[i].array = other.array),
                           [arrays |-> arrays, slices |-> slices, other |-> j])

\* reading element k of a slice
CallGet ==
    /\ Alive
    /\ \E i \in 1..Len(slices), k \in 0..MaxData :
        called' = Call("get", i, <<k>>, SliceObjGet(arrays, slices[i], k), <<>>)
    /\ UNCHANGED <<arrays, slices, map, chanvars, vmvars, tcvars>>

\* storing into element k of a slice; a program stores once, after it has
\* made its slices
StoredVal == 99
CallSet ==
    /\ Alive
    /\ Len(slices) = Cardinality(SliceIds)
    /\ \E i \in 1..Len(slices), k \in 0..MaxData :
        /\ StoredVal \notin Range(arrays[slices[i].array])
        /\ LET r == SliceObjSet(arrays, slices[i], k, StoredVal)
           IN  Mutated("set", i, <<k, StoredVal>>,
                       IF r.kind = "Ok"
                       THEN [kind |-> "Ok", data |-> r.data, slice |-> slices[i]]
                       ELSE r)

InsertedVal == 5
CallMapInsert ==
    /\ Alive
    /\ map # None
    /\ \E k \in MapKeys :
        /\ map' = Some(MapObjInsert(map[1], k, InsertedVal))
        /\ called' = Call("map_insert", 0, <<k>>, OkUnit, map[1])
    /\ UNCHANGED <<arrays, slices, chanvars, vmvars, tcvars>>

CallMapDelete ==
    /\ Alive
    /\ map # None
    /\ \E k \in MapKeys :
        /\ map' = Some(MapObjDelete(map[1], k))
        /\ called' = Call("map_delete", 0, <<k>>, OkUnit, map[1])
    /\ UNCHANGED <<arrays, slices, chanvars, vmvars, tcvars>>

CallMapTouchKey ==
    /\ Alive
    /\ map # None
    /\ \E k \in MapKeys :
        /\ map' = Some(MapObjTouchKey(map[1], k))
        /\ called' = Call("map_touch_key", 0, <<k>>, OkUnit, map[1])
    /\ UNCHANGED <<arrays, slices, chanvars, vmvars, tcvars>>

CallMapGet ==
    /\ Alive
    /\ map # None
    /\ \E k \in MapKeys :
        \E r \in {MapObjGet(map[1], k)} :
            /\ map' = Some(r.m)
            /\ called' = Call("map_get", 0, <<k>>, [kind |-> "Ok", val |-> r.val, ok |-> r.ok], map[1])
    /\ UNCHANGED <<arrays, slices, chanvars, vmvars, tcvars>>

\* ------------------------------------------------------------ specification
\* GosVM::run before its loop: the fibers with an entry function are spawned
VMInitWith(entries) ==
    /\ vmrun = "running"
    /\ entry = entries
    /\ status = [f \in Fibers |-> IF entries[f] = "" THEN "none" ELSE "spawned"]
    /\ cur = "none"
    /\ inst_count = [f \in Fibers |-> 0]
    /\ stack = [f \in Fibers |-> <<>>]
    /\ frames = [f \in Fibers |-> <<>>]
    /\ next_frames = [f \in Fibers |-> <<>>]
    /\ upvalues = <<>>
    /\ pkg = [m \in 1..Cardinality(PkgMembers) |-> Nil]
    /\ panic_msg = [f \in Fibers |-> ""]
    /\ nframes = 0
    /\ turn_len = 0
    /\ pkg_inited = FALSE
    /\ inits = 0
    /\ range_slot = [f \in Fibers |-> 0]
    /\ range_iters = [f \in Fibers |-> <<>>]

\* ------------------------------------------- the checker's imports (resolver.rs)
\* import paths, as their characters grouped into names and separators
Paths == { <<"fmt">>, <<"a", "/", "b">>, <<"c", "/">> }
Dirs == {"d1", "d2"}
\* the paths the importer finds
Importable == { <<"fmt">> }

\* ImportKey::new(path, dir)
ImportKey(path, dir) == <<path, dir>>

\* the name of the fake package of a failed import: the path without a
\* trailing '/', from its last '/' on
FakeName(path) ==
    LET name == IF Len(path) > 0 /\ path[Len(path)] = "/"
                THEN SubSeq(path, 1, Len(path) - 1) ELSE path
        slashes == {i \in 1..Len(name) : name[i] = "/"}
    IN  IF slashes = {} THEN name ELSE SubSeq(name, Max(slashes), Len(name))

\* TCObjects::new_package: the key of the new package is its place
NewPackage(objs, path, fake, name) ==
    [objs EXCEPT !.packages = Append(@, [path |-> path, fake |-> fake, name |-> name])]

\* faulty variant: only packages that were imported are cached
ImpMapInsertReal(imp_map, key, pkey, failed) ==
    IF failed THEN imp_map ELSE (key :> pkey) @@ imp_map
\* self.imp_map.insert(key, imported.unwrap())
ImpMapInsert(imp_map, key, pkey, failed) == (key :> pkey) @@ imp_map

\* Checker::import_package: the checker and the objects afterwards, and the
\* package key returned
ImportPackage(ck, objs, path, dir) ==
    LET key == ImportKey(path, dir)
        failed == path \notin Importable
        pkey == Len(objs.packages) + 1
    IN  IF key \in DOMAIN ck.imp_map
        THEN [ck |-> ck, objs |-> objs, ret |-> ck.imp_map[key]]
        ELSE [ck |-> [imp_map |-> ImpMapInsert(ck.imp_map, key, pkey, failed),
                      errors |-> IF failed
                                 THEN Append(ck.errors, <<"could not import ", path>>)
                                 ELSE ck.errors,
                      imports |-> Append(ck.imports, key)],
              objs |-> IF failed
                       THEN NewPackage(objs, path, TRUE, FakeName(path))
                       ELSE NewPackage(objs, path, FALSE, path),
              ret |-> pkey]

\* ------------------------------------------ metadata of types (codegen/types.rs)
\* a field or an embedded field of a struct type (a Var of tc_objs.lobjs)
Var(name, typ, embedded) == [name |-> name, typ |-> typ, embedded |-> embedded]

\* the fields a struct declares itself: x, an embedded Inner (which declares
\* x), an embedded Mid (which embeds Inner)
OwnX == Var("x", "int", FALSE)
EmbInner == Var("Inner", "Inner", TRUE)
EmbMid == Var("Mid", "Mid", TRUE)
\* the field lists of the struct Outer: one to three of them, in any order
FieldLists ==
    LET fs == {OwnX, EmbInner, EmbMid}
    IN  {<<a>> : a \in fs}
        \cup {l \in [1..2 -> fs] : l[1] # l[2]}
        \cup {l \in [1..3 -> fs] : Cardinality({l[1], l[2], l[3]}) = 3}

\* tc_objs.types of a program, by type key:
\*   type Inner struct { x int };  type Mid struct { Inner }
\*   type Outer struct { ...outer };  type Node struct { next *Node }
\*   [2]Inner, []Inner
Types(outer) ==
    [ int |-> [kind |-> "Basic"],
      Inner |-> [kind |-> "Named", underlying |-> "sInner"],
      sInner |-> [kind |-> "Struct", fields |-> << OwnX >>],
      Mid |-> [kind |-> "Named", underlying |-> "sMid"],
      sMid |-> [kind |-> "Struct", fields |-> << EmbInner >>],
      Outer |-> [kind |-> "Named", underlying |-> "sOuter"],
      sOuter |-> [kind |-> "Struct", fields |-> outer],
      Node |-> [kind |-> "Named", underlying |-> "sNode"],
      sNode |-> [kind |-> "Struct", fields |-> << Var("next", "pNode", FALSE) >>],
      pNode |-> [kind |-> "Pointer", base |-> "Node"],
      arr2 |-> [kind |-> "Array", elem |-> "Inner", len |-> 2],
      slice |-> [kind |-> "Slice", elem |-> "Inner"] ]

\* the types code generation asks the metadata of
Asked == {"int", "Inner", "Mid", "Outer", "Node", "arr2", "slice"}

\* Meta: the key of a MetadataType in vm_objs.metas and the pointer depth
Meta(key, ptr_depth) == [key |-> key, ptr_depth |-> ptr_depth]
\* s_meta.mint, made with the VMObjects: the first entry of metas
Mint == Meta(1, 0)
StaticMetas == << [kind |-> "Int"] >>
\* Meta::new_*: the MetadataType is inserted into metas, its key is its place
MetaNew(metas, t) == [metas |-> Append(metas, t), meta |-> Meta(Len(metas) + 1, 0)]
\* Meta::ptr_to
PtrTo(m) == [m EXCEPT !.ptr_depth = @ + 1]
\* Meta::mtype_unwraped: the MetadataType behind a named type
MtypeUnwraped(metas, m) ==
    IF metas[m.key].kind = "Named" THEN metas[metas[m.key].underlying.key] ELSE metas[m.key]

\* the lookup with the Meta of typ added to the record of what was made (ghost)
Made(lk, typ, m) == [lk EXCEPT !.made = @ \cup {[typ |-> typ, meta |-> m]}]
\* self.types_cache.contains_key(&typ)
TypesCacheContains(lk, typ) == typ \in DOMAIN lk.types_cache
\* self.types_cache.insert(typ, m)
TypesCacheInsert(lk, typ, m) == [lk EXCEPT !.types_cache = (typ :> m) @@ @]

RECURSIVE TcTypeToMeta(_, _), TcTypeToMetaImpl(_, _), BuildFields(_, _, _, _, _)

\* TypeLookup::tc_type_to_meta: lk is types_cache, vm_objs.metas and the ghost
\* record; the result is the lookup afterwards and the Meta
TcTypeToMeta(lk, typ) ==
    IF TypesCacheContains(lk, typ)
    THEN [lk |-> lk, meta |-> lk.types_cache[typ]]
    ELSE LET r == TcTypeToMetaImpl(lk, typ)
         IN  [lk |-> TypesCacheInsert(r.lk, typ, r.meta), meta |-> r.meta]

\* TypeLookup::build_fields, from field i (counted from 0) on: infos and
\* mapping are what the fields before i gave
BuildFields(lk, fields, i, infos, mapping) ==
    IF i >= Len(fields) THEN [lk |-> lk, fields |-> [infos |-> infos, mapping |-> mapping]]
    ELSE LET field == fields[i + 1]
             f == TcTypeToMeta(lk, field.typ)
             own == (field.name :> <<i>>) @@ mapping
             emb == MtypeUnwraped(f.lk.metas, f.meta)
             promoted ==
                 IF field.embedded /\ emb.kind = "Struct"
                 THEN [k \in DOMAIN emb.fields.mapping |-> <<i>> \o emb.fields.mapping[k]]
                 ELSE <<>>
         IN  BuildFields(f.lk, fields, i + 1,
                         Append(infos, [meta |-> f.meta, name |-> field.name,
                                        embedded |-> field.embedded]),
                         promoted @@ own)

\* TypeLookup::tc_type_to_meta_impl
TcTypeToMetaImpl(lk, typ) ==
    LET t == tc_objs.types[typ]
        done(l, m) == [lk |-> Made(l, typ, m), meta |-> m]
        alloc(l, mt) == LET n == MetaNew(l.metas, mt)
                        IN  done([l EXCEPT !.metas = n.metas], n.meta)
    IN  CASE t.kind = "Basic" -> done(lk, Mint)
          [] t.kind = "Array" ->
               LET elem == TcTypeToMetaImpl(lk, t.elem)
               IN  alloc(elem.lk, [kind |-> "Array", elem |-> elem.meta, size |-> t.len])
          [] t.kind = "Slice" ->
               LET el_type == TcTypeToMeta(lk, t.elem)
               IN  alloc(el_type.lk, [kind |-> "Slice", elem |-> el_type.meta])
          [] t.kind = "Struct" ->
               LET b == BuildFields(lk, t.fields, 0, <<>>, <<>>)
               IN  alloc(b.lk, [kind |-> "Struct", fields |-> b.fields])
          [] t.kind = "Pointer" ->
               LET inner == TcTypeToMeta(lk, t.base)
               IN  done(inner.lk, PtrTo(inner.meta))
          [] t.kind = "Named" ->
               LET md == MetaNew(lk.metas, [kind |-> "Named", underlying |-> Mint])
                   placed == TypesCacheInsert([lk EXCEPT !.metas = md.metas], typ, md.meta)
                   underlying == TcTypeToMeta(Made(placed, typ, md.meta), t.underlying)
               IN  [lk |-> [underlying.lk EXCEPT
                               !.metas[md.meta.key].underlying = underlying.meta],
                    meta |-> md.meta]

\* ------------------------------------------- operations of checker and codegen
TcInitWith(outer) ==
    /\ tc_objs = [types |-> Types(outer), packages |-> <<>>]
    /\ checker = [imp_map |-> <<>>, errors |-> <<>>, imports |-> <<>>]
    /\ lookup = [types_cache |-> <<>>, metas |-> StaticMetas, made |-> {}]

Caps == 0..MaxCap

InitWith(caps, plans) ==
    /\ chans = [c \in Chans |-> ChannelNew(caps[c])]
    /\ asked = caps
    /\ pc = [f \in Fibers |-> "idle"]
    /\ op = [f \in Fibers |-> NoOp]
    /\ res = [f \in Fibers |-> NoRes]
    /\ pseudo_rand = [f \in Fibers |-> 0]
    /\ probed = [f \in Fibers |-> <<>>]
    /\ yielded = [f \in Fibers |-> FALSE]
    /\ deposited = [v \in Vals |-> 0]
    /\ received = [v \in Vals |-> 0]
    /\ attempts = [c \in Chans |-> IF caps[c] = 0 THEN None ELSE Some(0)]
    /\ ncalls = 0
    /\ plan = plans
    /\ VMInitWith([f \in Fibers |-> ""])
    /\ ObjInitWith(<<>>, None)
    /\ TcInitWith(<< OwnX >>)

\* channel A is a rendezvous channel, channel B has any capacity
CapsOf == {caps \in [Chans -> Caps] : caps["A"] = 0}

\* any program: every fiber may call any of its operations, MaxCalls calls in all
Init == \E caps \in CapsOf : InitWith(caps, [f \in Fibers |-> Ops(f)])

Step(f) ==
    \/ CallSend(f)
    \/ CallRecv(f)
    \/ CallClose(f)
    \/ CallSelect(f)
    \/ CallSelectAgain(f)
    \/ Resume(f)

Next == \E f \in Fibers : Step(f)

Spec == Init /\ [][Next]_vars

\* two fibers with one operation each: f1 any operation, f2 a send, recv or
\* close; f3 does nothing
InitPair ==
    \E caps \in CapsOf, o1 \in Ops("f1"), o2 \in SendOps("f2") \cup RecvOps \cup CloseOps :
        InitWith(caps, [f \in Fibers |->
            CASE f = "f1" -> {o1} [] f = "f2" -> {o2} [] OTHER -> {}])

StepPair(f) ==
    \/ CallSend(f)
    \/ CallRecv(f)
    \/ CallClose(f)
    \/ CallSelect(f)
    \/ Resume(f)

NextPair == RunReturn \/ \E f \in Fibers : StepPair(f)

\* the executor runs its tasks in turn (a task that yields is queued again
\* behind the others), so no fiber that can step is passed over forever
FairSpec ==
    /\ InitPair
    /\ [][NextPair]_vars
    /\ \A f \in Fibers : WF_vars(StepPair(f))
    /\ WF_vars(RunReturn)

\* three fibers with one operation each: f1 sends, f2 receives, f3 closes or
\* receives
InitTrio ==
    \E caps \in CapsOf, o1 \in SendOps("f1"), o2 \in RecvOps, o3 \in CloseOps \cup RecvOps :
        InitWith(caps, [f \in Fibers |->
            CASE f = "f1" -> {o1} [] f = "f2" -> {o2} [] OTHER -> {o3}])

StepTrio(f) ==
    \/ CallSend(f)
    \/ CallRecv(f)
    \/ CallClose(f)
    \/ Resume(f)

NextTrio == \E f \in Fibers : StepTrio(f)

SpecTrio == InitTrio /\ [][NextTrio]_vars

\* fibers that run bytecode: f1 any entry function, f2 a quiet one; no fiber
\* uses a channel
InitVM ==
    \E e1 \in Entries, e2 \in QuietEntries :
        /\ VMInitWith([f \in Fibers |-> CASE f = "f1" -> e1 [] f = "f2" -> e2 [] OTHER -> ""])
        /\ chans = [c \in Chans |-> ChannelNew(0)]
        /\ asked = [c \in Chans |-> 0]
        /\ pc = [f \in Fibers |-> "idle"]
        /\ op = [f \in Fibers |-> NoOp]
        /\ res = [f \in Fibers |-> NoRes]
        /\ pseudo_rand = [f \in Fibers |-> 0]
        /\ probed = [f \in Fibers |-> <<>>]
        /\ yielded = [f \in Fibers |-> FALSE]
        /\ deposited = [v \in Vals |-> 0]
        /\ received = [v \in Vals |-> 0]
        /\ attempts = [c \in Chans |-> None]
        /\ ncalls = 0
        /\ plan = [f \in Fibers |-> {}]
        /\ ObjInitWith(<<>>, None)
        /\ TcInitWith(<< OwnX >>)

NextVM == RunReturn \/ \E f \in Fibers : StepVM(f)

SpecVM == InitVM /\ [][NextVM]_vars

\* the objects alone: the program has an array of any length up to MaxLen, or
\* a map; no fiber runs
InitObj ==
    /\ \/ \E n \in 0..MaxLen : ObjInitWith(<<ArrayOf(n)>>, None)
       \/ ObjInitWith(<<>>, Some(MapObjNew(0)))
    /\ VMInitWith([f \in Fibers |-> ""])
    /\ TcInitWith(<< OwnX >>)
    /\ chans = [c \in Chans |-> ChannelNew(0)]
    /\ asked = [c \in Chans |-> 0]
    /\ pc = [f \in Fibers |-> "idle"]
    /\ op = [f \in Fibers |-> NoOp]
    /\ res = [f \in Fibers |-> NoRes]
    /\ pseudo_rand = [f \in Fibers |-> 0]
    /\ probed = [f \in Fibers |-> <<>>]
    /\ yielded = [f \in Fibers |-> FALSE]
    /\ deposited = [v \in Vals |-> 0]
    /\ received = [v \in Vals |-> 0]
    /\ attempts = [c \in Chans |-> None]
    /\ ncalls = 0
    /\ plan = [f \in Fibers |-> {}]

NextObj ==
    \/ CallWithArray
    \/ CallSlice
    \/ CallPush
    \/ CallAppend
    \/ CallAppendSlice
    \/ CallGet
    \/ CallSet
    \/ CallMapInsert
    \/ CallMapDelete
    \/ CallMapTouchKey
    \/ CallMapGet

SpecObj == InitObj /\ [][NextObj]_vars

\* the variables of the channels other than the number of calls
chanrest == <<chans, pc, op, res, pseudo_rand, probed, yielded, deposited, received,
              attempts, asked, plan>>

\* the checker resolves an import declaration
CallImportPackage ==
    /\ ncalls < MaxCalls
    /\ \E path \in Paths, dir \in Dirs :
        LET r == ImportPackage(checker, tc_objs, path, dir)
        IN  /\ checker' = r.ck
            /\ tc_objs' = r.objs
            /\ called' = Call("import_package", 0, ImportKey(path, dir), r.ret,
                              [checker |-> checker, tc_objs |-> tc_objs])
    /\ ncalls' = ncalls + 1
    /\ UNCHANGED <<lookup, arrays, slices, map, chanrest, vmvars>>

\* code generation asks for the metadata of a type
CallTcTypeToMeta ==
    /\ ncalls < MaxCalls
    /\ \E typ \in Asked :
        LET r == TcTypeToMeta(lookup, typ)
        IN  /\ lookup' = r.lk
            /\ called' = Call("tc_type_to_meta", 0, <<typ>>, r.meta, lookup)
    /\ ncalls' = ncalls + 1
    /\ UNCHANGED <<tc_objs, checker, arrays, slices, map, chanrest, vmvars>>

\* the checker and the code generator alone: a program with any field list
\* of Outer; no fiber runs
InitTc ==
    /\ \E outer \in FieldLists : TcInitWith(outer)
    /\ ObjInitWith(<<>>, None)
    /\ VMInitWith([f \in Fibers |-> ""])
    /\ chans = [c \in Chans |-> ChannelNew(0)]
    /\ asked = [c \in Chans |-> 0]
    /\ pc = [f \in Fibers |-> "idle"]
    /\ op = [f \in Fibers |-> NoOp]
    /\ res = [f \in Fibers |-> NoRes]
    /\ pseudo_rand = [f \in Fibers |-> 0]
    /\ probed = [f \in Fibers |-> <<>>]
    /\ yielded = [f \in Fibers |-> FALSE]
    /\ deposited = [v \in Vals |-> 0]
    /\ received = [v \in Vals |-> 0]
    /\ attempts = [c \in Chans |-> None]
    /\ ncalls = 0
    /\ plan = [f \in Fibers |-> {}]

NextTc == CallImportPackage \/ CallTcTypeToMeta

SpecTc == InitTc /\ [][NextTc]_vars


\* =================================================================== claims
Probes(f) == {probed[f][i] : i \in 1..Len(probed[f])}

\* C1: on a rendezvous channel try_send succeeds only when a receiver has
\* polled the channel (state Ready) and is pending (another fiber suspended in
\* a receive on it, or the calling select itself holding a receive case on
\* it); in NotReady and InPlace it returns would-block and the awaiting send
\* yields; never more than one value is held and nothing is buffered.
C1_SendNeedsPendingReceiver ==
    /\ \A f \in Fibers : \A e \in Probes(f) :
         (e.typ = "Send" /\ IsRendezvous(chans[e.chan])) =>
            /\ e.out = "Ok" => (e.pre = "Ready" /\ (e.waiting \/ ReceivesOn(op[f], e.chan)))
            /\ e.pre \in {"NotReady", "InPlace"} =>
                  /\ e.out = "WouldBlock"
                  /\ op[f].kind = "Send" => (pc[f] = "pending" /\ yielded[f])
    /\ \A c \in Chans : IsRendezvous(chans[c]) =>
         /\ Len(chans[c].buf) <= 1
         /\ ChanLen(chans[c]) = 0

\* what the code does guarantee of a rendezvous send: a successful try_send
\* saw state Ready, whether or not the receiver that set it is still there
SendSeesReady ==
    /\ \A f \in Fibers : \A e \in Probes(f) :
         (e.typ = "Send" /\ IsRendezvous(chans[e.chan])) =>
            /\ e.out = "Ok" => e.pre = "Ready"
            /\ e.pre \in {"NotReady", "InPlace"} =>
                  /\ e.out = "WouldBlock"
                  /\ op[f].kind = "Send" => (pc[f] = "pending" /\ yielded[f])
    /\ \A c \in Chans : IsRendezvous(chans[c]) =>
         /\ Len(chans[c].buf) <= 1
         /\ ChanLen(chans[c]) = 0

\* C2: a rendezvous channel in state Ready has a fiber suspended in recv, or
\* in a select with a receive case, on it.
C2_ReadyHasReceiver ==
    \A c \in Chans :
        (IsRendezvous(chans[c]) /\ chans[c].st = "Ready") =>
            \E f \in Fibers : pc[f] = "pending" /\ ReceivesOn(op[f], c)

\* the number of copies of v held by the channels
RECURSIVE Occurrences(_, _)
Occurrences(s, v) ==
    IF s = <<>> THEN 0
    ELSE (IF Head(s) = v THEN 1 ELSE 0) + Occurrences(Tail(s), v)

InFlight(v) == Occurrences(chans["A"].buf, v) + Occurrences(chans["B"].buf, v)

C4_BoundedCapacity ==
    \A c \in Chans :
        asked[c] >= 1 =>
            /\ ChanCap(chans[c]) = asked[c]
            /\ 0 <= ChanLen(chans[c])
            /\ ChanLen(chans[c]) <= ChanCap(chans[c])
            /\ attempts[c] # None => ChanLen(chans[c]) = Min(attempts[c][1], asked[c])

\* the (N+1)-th try_send on a full channel returned would-block
C4_Witness ==
    \E f \in Fibers :
        /\ asked["B"] >= 1
        /\ attempts["B"] = Some(asked["B"] + 1)
        /\ pc[f] = "pending"
        /\ op[f].kind = "Send"
        /\ Last(probed[f]).chan = "B"
        /\ Last(probed[f]).out = "WouldBlock"

\* fiber f1 sends 42 and fiber f2 receives on the rendezvous channel c, and
\* nothing else runs
Handshake(c) ==
    /\ asked[c] = 0
    /\ plan["f1"] = {SendOp(c, 42)}
    /\ plan["f2"] = {RecvOp(c)}

HandshakeDone ==
    /\ pc["f1"] = "done" /\ res["f1"] = OkRes(0, None)
    /\ pc["f2"] = "done" /\ res["f2"] = OkRes(0, Some(42))

\* the sender's try_send found the channel NotReady: it is suspended
SenderFirst == probed["f1"] # <<>> /\ probed["f1"][1].pre = "NotReady"

\* C5: with one fiber in send(42) and one in recv() on a capacity-0 channel,
\* in either order and under fair scheduling, a sender that runs before the
\* receiver has polled is suspended, the receiver eventually gets 42 and both
\* fibers terminate.
C5_Handshake ==
    (Handshake("A") \/ Handshake("B")) =>
        /\ [](SenderFirst => (pc["f1"] = "pending" /\ yielded["f1"]))
        /\ <>HandshakeDone

\* the handshake completed after the sender had been suspended
C5_Witness == Handshake("A") /\ HandshakeDone /\ yielded["f1"]

\* C6: a try_send on a closed channel, from send or from a selector's send
\* case, on a bounded or a rendezvous channel, never succeeds: the call ends
\* with the failure "channel closed!" and the channel is left as it was.
C6_SendOnClosedFails ==
    \A f \in Fibers : \A e \in Probes(f) :
        (e.typ = "Send" /\ e.pre = "Closed") =>
            /\ e.out = "Closed"
            /\ e.same
            /\ pc[f] = "done"
            /\ res[f] = ErrRes(ClosedMsg)

\* a selector's send case met a closed bounded channel
C6_Witness ==
    /\ pc["f1"] = "done"
    /\ op["f1"].kind = "Select"
    /\ res["f1"] = ErrRes(ClosedMsg)
    /\ Last(probed["f1"]).typ = "Send"
    /\ ~IsRendezvous(chans[Last(probed["f1"]).chan])

\* C7: once closed, a rendezvous channel stays Closed under every later
\* try_send, try_recv and close, and every recv or selector receive case that
\* polls it, pending before the close or called after it, returns None.
C7_ClosedIsFinal ==
    /\ [](\A f \in Fibers : \A e \in Probes(f) :
            (e.typ = "Recv" /\ e.pre = "Closed" /\ IsRendezvous(chans[e.chan])) =>
                /\ pc[f] = "done"
                /\ res[f] = OkRes(e.index, None))
    /\ [][\A c \in Chans :
            (IsRendezvous(chans[c]) /\ chans[c].st = "Closed") => chans'[c].st = "Closed"]_vars

\* a recv that was pending when the channel was closed returned None
C7_Witness ==
    \E f \in Fibers :
        /\ pc[f] = "done"
        /\ op[f] = RecvOp("A")
        /\ yielded[f]
        /\ chans["A"].st = "Closed"
        /\ res[f] = OkRes(0, None)

\* C8: a select over count >= 1 cases probes case (start + i) mod count as
\* its i-th probe, start being the selector's counter at the call's entry
\* (one more after the call), in every pass; a pass stops at the first probe
\* that does not would-block, and a probe that succeeds makes the call return
\* its index, with the received value for a receive case.
C8_Rotation ==
    \A f \in Fibers :
        (op[f].kind = "Select" /\ pc[f] # "idle") =>
            LET t == probed[f]
                count == Len(op[f].comms)
                start == op[f].rand_start
            IN /\ pseudo_rand[f] = start + 1
               /\ Len(t) >= 1
               /\ Len(t) <= count
               /\ \A i \in 1..Len(t) :
                    /\ t[i].index = (start + (i - 1)) % count
                    /\ t[i].typ = op[f].comms[t[i].index + 1].typ
                    /\ t[i].chan = op[f].comms[t[i].index + 1].chan
                    /\ i < Len(t) => t[i].out = "WouldBlock"
               /\ Last(t).out = "Ok" =>
                    /\ pc[f] = "done"
                    /\ res[f] = OkRes(Last(t).index,
                                      IF Last(t).typ = "Recv" THEN Last(t).val ELSE None)
               /\ pc[f] = "pending" => (Len(t) = count /\ Last(t).out = "WouldBlock")

\* the second select on a selector of two cases probed case 1 first and
\* returned case 0
C8_Witness ==
    /\ pc["f1"] = "done"
    /\ op["f1"].kind = "Select"
    /\ op["f1"].rand_start = 1
    /\ Len(op["f1"].comms) = 2
    /\ Len(probed["f1"]) = 2
    /\ probed["f1"][1].index = 1
    /\ res["f1"] = OkRes(0, None)

AllWouldBlock(f) ==
    /\ Len(probed[f]) = Len(op[f].comms)
    /\ \A e \in Probes(f) : e.out = "WouldBlock"

\* C9: a select with a default branch never yields, and when none of its
\* cases can proceed it returns the default index, the number of cases, with
\* no value.
C9_DefaultImmediate ==
    \A f \in Fibers :
        (op[f].kind = "Select" /\ op[f].def) =>
            /\ pc[f] # "pending"
            /\ ~yielded[f]
            /\ (pc[f] = "done" /\ AllWouldBlock(f)) =>
                  res[f] = OkRes(Len(op[f].comms), None)

\* a select over the two empty rendezvous channels returned the default
C9_Witness ==
    /\ asked["B"] = 0
    /\ pc["f1"] = "done"
    /\ op["f1"] = SelectOp(<<RecvComm("A"), RecvComm("B")>>, TRUE)
    /\ res["f1"] = OkRes(2, None)
    /\ ~yielded["f1"]
    /\ chans["A"].buf = <<>>
    /\ chans["B"].buf = <<>>

\* comm a of a select is matched by operation o: a send and a receive on the
\* same channel
Matches(a, o) ==
    /\ o.kind \in {"Send", "Recv"}
    /\ o.comms[1].chan = a.chan
    /\ o.comms[1].typ # a.typ

\* fiber f1 runs a select without default and fiber f2 a send or receive that
\* matches one of its cases; nothing else runs
SelectWithPeer ==
    \E o1 \in plan["f1"], o2 \in plan["f2"] :
        /\ o1.kind = "Select"
        /\ ~o1.def
        /\ \E i \in 1..Len(o1.comms) : Matches(o1.comms[i], o2)

SelectReturnedReady ==
    /\ pc["f1"] = "done"
    /\ op["f1"].kind = "Select"
    /\ res["f1"].kind = "Ok"
    /\ res["f1"].idx < Len(op["f1"].comms)
    /\ Last(probed["f1"]).out = "Ok"

\* C10: a select without default whose cases are not ready yields and
\* retries, and under fair scheduling, with another fiber in a matching send
\* or receive, it eventually returns with a ready case.
C10_SelectEventuallyReturns ==
    SelectWithPeer =>
        /\ [](\A f \in Fibers :
                (op[f].kind = "Select" /\ ~op[f].def /\ pc[f] # "idle" /\ AllWouldBlock(f)) =>
                    (pc[f] = "pending" /\ yielded[f]))
        /\ <>SelectReturnedReady

\* a select that had yielded returned a receive case
C10_Witness ==
    /\ SelectWithPeer
    /\ SelectReturnedReady
    /\ yielded["f1"]
    /\ Last(probed["f1"]).typ = "Recv"

\* ----------------------------------------------------- scheduler and errors
\* a fiber that is in its dispatch loop but is not being polled: it yielded
Suspended(f) == status[f] = "ready" /\ cur # f

\* C11: a fiber dispatches at most yield_unit (1024) instructions between two
\* yields: no turn is longer than 1024 instructions, and a fiber that has
\* dispatched 1024 instructions in its turn is not being polled any more (it
\* yielded, ended or failed) before another instruction is dispatched
C11_YieldEveryUnit ==
    /\ turn_len <= yield_unit
    /\ \A f \in Fibers : cur = f => turn_len < yield_unit

\* a fiber has dispatched a full batch and yielded; it is still in its loop
C11_Witness ==
    /\ turn_len = yield_unit
    /\ cur = "none"
    /\ Suspended("f1")
    /\ status["f2"] = "ended"

\* no fiber of the channel scenario can make progress: each has finished, or
\* is suspended in a send, recv or select whose next attempt changes nothing
Blocked(f) ==
    /\ pc[f] = "pending"
    /\ \E p \in {Pass(f, chans, op[f])} : p.ret = None /\ p.cs = chans
NoFiberCanProgress ==
    /\ vmrun = "running"
    /\ \A f \in Fibers : status[f] = "none"
    /\ \A f \in Fibers : pc[f] = "done" \/ plan[f] = {} \/ Blocked(f)

\* C12: GosVM::run terminates whenever no fiber can make progress, also when
\* the remaining fibers are blocked in channel operations for ever. (A poll
\* of a blocked fiber is a Resume that changes no variable: the executor's
\* endless polling is a stuttering behaviour in which RunReturn is never enabled.)
C12_RunTerminates == NoFiberCanProgress ~> (vmrun = "returned")

\* the messages of the runtime failures other than ASSERT
RuntimeMsgs == {IndexMsg, NilMsg, FfiMsg}

\* C13: a runtime failure (index out of range, nil interface, FFI
\* construction error) terminates its fiber only: the fiber is failed and its
\* loop has stopped, the step that fails it leaves the VM running and the
\* other fibers as they were, and every other fiber that can run can still be
\* dispatched
C13_FailureEndsFiberOnly ==
    /\ [](\A f \in Fibers :
            panic_msg[f] \in RuntimeMsgs =>
                /\ status[f] = "failed"
                /\ ~ENABLED StepVM(f)
                /\ \A g \in Fibers \ {f} :
                      (vmrun = "running" /\ cur = "none" /\ status[g] \in {"spawned", "ready"})
                          => ENABLED StepVM(g))
    /\ [][\A f \in Fibers :
            (panic_msg[f] = "" /\ panic_msg'[f] \in RuntimeMsgs) =>
                /\ vmrun' = "running"
                /\ \A g \in Fibers \ {f} :
                      /\ status'[g] = status[g]
                      /\ frames'[g] = frames[g]
                      /\ stack'[g] = stack[g]]_vars

\* fiber f1 has failed and fiber f2, spawned with `for {}`, is dispatching
C13_Witness ==
    /\ status["f1"] = "failed"
    /\ panic_msg["f1"] = IndexMsg
    /\ vmrun = "running"
    /\ entry["f2"] = "spin"
    /\ cur = "f2"
    /\ turn_len > 1

\* C14: ASSERT with a false operand terminates the owning fiber only: the
\* fiber is failed and the VM goes on
C14_AssertEndsFiberOnly ==
    \A f \in Fibers :
        panic_msg[f] = AssertMsg => status[f] = "failed" /\ vmrun # "panicked"

\* C15: the outcome of GosVM::run tells a run with a failed fiber from a run
\* whose fibers all completed: run does not return as after a clean run when
\* a fiber has failed
C15_OutcomeTellsFailure ==
    vmrun = "returned" => \A f \in Fibers : status[f] # "failed"

\* C16: a failed TYPE_ASSERT in the non-try form is a runtime failure of the
\* owning fiber, not of the VM
C16_TypeAssertEndsFiberOnly ==
    \A f \in Fibers :
        panic_msg[f] = UnimplementedMsg => status[f] = "failed" /\ vmrun # "panicked"

\* ------------------------------------------------------------------ up-values
\* fiber f executes RETURN in this step
Returns(f) == Dispatching(f, "RETURN") /\ frames'[f] # frames[f]

ResolvesLive(uv) ==
    /\ status[uv.fiber] = "ready"
    /\ uv.frame < Len(frames[uv.fiber])
    /\ At(frames[uv.fiber], uv.frame).serial = uv.cell.serial
    /\ At(frames[uv.fiber], uv.frame).stack_base + uv.index < Len(stack[uv.fiber])

\* C18: every Open up-value (that something still holds) resolves to a live
\* stack slot of a frame that is still active on its fiber
C18_OpenResolves ==
    \A u \in Held : upvalues[u].open => ResolvesLive(upvalues[u])

\* C19: up-values of different closures that captured the same local share
\* one cell once they are closed: they never hold different values
C19_SharedCell ==
    \A u1, u2 \in Held :
        (/\ ~upvalues[u1].open
         /\ ~upvalues[u2].open
         /\ upvalues[u1].cell # NoCell
         /\ upvalues[u1].cell = upvalues[u2].cell)
            => upvalues[u1].val = upvalues[u2].val

\* the up-value that the LOAD_UPVALUE or STORE_UPVALUE of fiber f names
Named(f) == At(TopFrame(f).local_ptrs, CurInst(f).imm)

\* C20: a Closed up-value keeps the value of its last set_value, a read
\* returns that value, an up-value closed at return holds what the captured
\* stack slot held, and the counter closure over x := 1 yields 2, 3, 4
C20_ClosedKeepsLastWrite ==
    /\ []((entry["f1"] = "main_counter" /\ status["f1"] = "ended")
            => <<pkg[3].n, pkg[4].n, pkg[5].n>> = <<2, 3, 4>>)
    /\ [][\A u \in DOMAIN upvalues :
            /\ ~upvalues[u].open =>
                  \/ upvalues'[u] = upvalues[u]
                  \/ \E f \in Fibers :
                        /\ Dispatching(f, "STORE_UPVALUE")
                        /\ Named(f) = u
                        /\ upvalues'[u] = [upvalues[u] EXCEPT !.val = Top(stack[f])]
            /\ (upvalues[u].open /\ ~upvalues'[u].open) =>
                  upvalues'[u].val = At(stack[upvalues[u].fiber], SlotOf(upvalues[u].fiber, upvalues[u]))]_vars
    /\ [][\A f \in Fibers :
            (/\ Dispatching(f, "LOAD_UPVALUE")
             /\ frames'[f] # frames[f]
             /\ ~upvalues[Named(f)].open)
                => Top(stack'[f]) = upvalues[Named(f)].val]_vars

\* the counter has run: three calls of the closure after outer returned
C20_Witness ==
    /\ entry["f1"] = "main_counter"
    /\ status["f1"] = "ended"
    /\ <<pkg[3].n, pkg[4].n, pkg[5].n>> = <<2, 3, 4>>

\* --------------------------------------------------------- slices and maps
\* the slice an operation was called on (slice and get leave it as it was)
Target == slices[called.s]
\* the slice and the backing arrays before a push or an append
TargetBefore == called.before.slices[called.s]
DataBefore == called.before.arrays[TargetBefore.array]
ValidSlice(s, arrs) ==
    /\ 0 <= s.begin
    /\ s.begin <= s.end
    /\ s.end <= s.cap_end
    /\ s.cap_end <= Len(arrs[s.array])

\* C21: every slice s has 0 <= s.begin <= s.end <= s.cap_end <= len(s.array),
\* after any sequence of with_array, slice, push and append, for the slice
\* operated on and for the slices that share its backing array
C21_SliceBoundsOrdered == \A i \in 1..Len(slices) : ValidSlice(slices[i], arrays)

\* the end a slice expression asks for: -1 is the length
AskedEnd(len, end) == IF end = -1 THEN len ELSE end
\* the argument triple is not one of a slice expression of s (-1 is an absent
\* end or max)
Violating(s, begin, end, max) ==
    \/ ~(0 <= begin /\ begin <= AskedEnd(SliceLen(s), end) /\ AskedEnd(SliceLen(s), end) <= SliceCap(s))
    \/ max # -1 /\ (max > SliceCap(s) \/ AskedEnd(SliceLen(s), end) > max)

\* C22: SLICE / SLICE_FULL on a (well-formed) slice with arguments that violate
\* 0 <= begin <= end <= cap(s), or with max > cap(s) or end > max, returns a
\* runtime failure: no violating triple yields a slice
C22_ViolatingSliceFails ==
    (/\ called.op = "slice"
     /\ ValidSlice(Target, arrays)
     /\ Violating(Target, called.args[1], called.args[2], called.args[3]))
        => called.ret.kind = "Err"

\* C23: slice(s, 0, len(s), cap(s)) is s: same array, begin, end and cap_end,
\* for every well-formed slice s
C23_IdentitySlice ==
    (/\ called.op = "slice"
     /\ ValidSlice(Target, arrays)
     /\ called.args = <<0, SliceLen(Target), SliceCap(Target)>>)
        => /\ called.ret.kind = "Ok"
           /\ SliceObj(Target.array, called.ret) = Target

\* the begin, length and capacity that an operation's check_indices started
\* from: those of the array for with_array, those of the slice for slice
Base ==
    IF called.op = "with_array"
    THEN [begin |-> 0, len |-> Len(arrays[TheArray]), cap |-> Len(arrays[TheArray])]
    ELSE [begin |-> Target.begin, len |-> SliceLen(Target), cap |-> SliceCap(Target)]

\* C24: an end of -1 denotes len(s): slice(s, b, -1, -1) is made and has
\* end = s.begin + len(s) for every b in 0..len(s) within the capacity; and an
\* end in 0..len(s) is taken as it is: the slice made has end = s.begin + end,
\* and it is made for every b in 0..end within the capacity. The same holds
\* for with_array on the array.
C24_EndNormalised ==
    called.op \in {"slice", "with_array"} =>
        LET b == called.args[1]
            e == called.args[2]
            mx == called.args[3]
            fits == 0 <= b /\ b <= AskedEnd(Base.len, e) /\ b <= Base.cap /\ mx = -1
        IN  /\ (e = -1 /\ fits) =>
                   called.ret.kind = "Ok" /\ called.ret.ei = Base.begin + Base.len
            /\ (e \in 0..Base.len /\ called.ret.kind = "Ok") =>
                   called.ret.ei = Base.begin + e
            /\ (e \in 0..Base.len /\ fits) => called.ret.kind = "Ok"

\* s[b:] of a slice that begins inside its array was made, and so was s[b:e]
C24_Witness ==
    /\ called.op = "slice"
    /\ called.ret.kind = "Ok"
    /\ called.args[2] = -1
    /\ called.args[1] = 1
    /\ Target.begin = 1
    /\ SliceLen(Target) = 1
    /\ called.ret.ei = 2
    /\ Len(slices) = 2

\* C25: reading element i of a (well-formed) slice s succeeds only when
\* 0 <= i < len(s); for i >= len(s) it fails with "index out of range", also
\* when s.begin + i is inside the backing array
C25_GetWithinLen ==
    (called.op = "get" /\ ValidSlice(Target, arrays)) =>
        IF called.args[1] < SliceLen(Target)
        THEN called.ret.kind = "Ok"
        ELSE called.ret.kind = "Err" /\ called.ret.msg = "index out of range"

\* the elements of a slice
Elems(s, arrs) == SubSeq(arrs[s.array], s.begin + 1, s.end)

\* C26: append(a, vs) on a well-formed a gives a slice of len(a) + len(vs)
\* elements, a's followed by vs, with cap >= len; and when len(a) + len(vs)
\* exceeds cap(a), no element of the old array at an index >= a.cap_end is
\* changed
C26_AppendKeepsBeyondCap ==
    (called.op = "append" /\ ValidSlice(TargetBefore, called.before.arrays)) =>
        /\ called.ret.kind = "Ok"
        /\ SliceLen(Target) = SliceLen(TargetBefore) + Len(called.args)
        /\ Elems(Target, arrays) = Elems(TargetBefore, called.before.arrays) \o called.args
        /\ SliceCap(Target) >= SliceLen(Target)
        /\ SliceLen(TargetBefore) + Len(called.args) > SliceCap(TargetBefore) =>
              \A i \in 1..Len(DataBefore) :
                  i > TargetBefore.cap_end =>
                      /\ i <= Len(arrays[TargetBefore.array])
                      /\ arrays[TargetBefore.array][i] = DataBefore[i]

\* C27: MapObj::get of a key not in the map returns (the zero value, false),
\* of a key in the map (the stored value, true); either way the map is as it
\* was: no entry is inserted, len is unchanged
C27_MapGetLeavesMap ==
    called.op = "map_get" =>
        LET m == called.before
            k == called.args[1]
        IN  /\ map = Some(m)
            /\ IF k \in DOMAIN m.map
               THEN called.ret.val = m.map[k] /\ called.ret.ok
               ELSE called.ret.val = m.zero_val /\ ~called.ret.ok

\* a miss on a map that holds another key
C27_Witness ==
    /\ called.op = "map_get"
    /\ ~called.ret.ok
    /\ called.ret.val = 0
    /\ map # None
    /\ DOMAIN map[1].map = MapKeys \ {called.args[1]}

\* ------------------------------------------------ package init and range slots
\* C28: after RETURN_INIT_PKG has run for the package it is marked
\* initialized, so that every later IMPORT pushes false and the guarded
\* constructor runs at most once in a run
C28_InitAtMostOnce ==
    /\ inits >= 1 => pkg_inited
    /\ inits <= 1

\* C29: RANGE_INIT fails only when a 17th simultaneous slot is requested: when
\* it fails, the fiber has asked for more slots than the pool has
C29_PoolHoldsSixteen ==
    \A f \in Fibers : panic_msg[f] = SlotMsg => range_slot[f] > RangePool

\* the depth to which the range loops of a program are nested, over its calls
RangeDepth(e) ==
    CASE e = "main_nest_pool" -> RangePool
      [] e = "main_nest_below" -> RangePool - 1
      [] e \in {"main_break", "main_first"} -> 1
      [] e = "main_mixed" -> 2
      [] OTHER -> 0

\* C30: a program whose range loops are nested less deep than the pool size
\* never exhausts the pool, however many loops it runs one after the other and
\* however they end
C30_SlotsComeBack ==
    \A f \in Fibers :
        (entry[f] # "" /\ RangeDepth(entry[f]) < RangePool) => panic_msg[f] # SlotMsg

\* ------------------------------------------------------- close after a send
\* a receive of the fiber's last turn reported the closed indicator on a
\* rendezvous channel
ReportsClosed(f) ==
    \E i \in 1..Len(probed[f]) :
        /\ probed[f][i].typ = "Recv"
        /\ probed[f][i].out = "Closed"
        /\ IsRendezvous(chans[probed[f][i].chan])

\* C35: on a rendezvous channel a value whose send has returned success is
\* not lost, also when close() comes between the send and the receive: when a
\* receive reports the closed indicator, every value deposited so far has been
\* returned by a receive or is still held by a channel
C35_SentValueNotLost ==
    (\E f \in Fibers : ReportsClosed(f)) =>
        \A v \in Vals : deposited[v] = received[v] + InFlight(v)

\* ------------------------------------------------------ set and shared append
\* C36: for a valid slice s (begin > 0 included) and 0 <= i < len(s), set(i, v)
\* succeeds, s.get(i) then returns v, and the backing array is unchanged at
\* every absolute index other than s.begin + i
C36_SetThenGet ==
    (/\ called.op = "set"
     /\ ValidSlice(TargetBefore, called.before.arrays)
     /\ called.args[1] < SliceLen(TargetBefore)) =>
        /\ called.ret.kind = "Ok"
        /\ SliceObjGet(arrays, Target, called.args[1]) = OkVal(called.args[2])
        /\ Len(arrays[Target.array]) = Len(DataBefore)
        /\ \A k \in 1..Len(DataBefore) :
              k # TargetBefore.begin + called.args[1] + 1 =>
                  arrays[Target.array][k] = DataBefore[k]

\* the slice that append took its values from, when it was given a slice
Shares == "other" \in DOMAIN called.before
Other == called.before.slices[called.before.other]

\* C37: append(a, b) where b shares a's backing array, whatever the overlap
\* of their ranges (b beyond a.end included), completes without failure and
\* yields a's elements followed by b's elements as they were before the call,
\* with len = len(a) + len(b)
C37_AppendSharedArray ==
    (/\ called.op = "append"
     /\ Shares
     /\ ValidSlice(TargetBefore, called.before.arrays)
     /\ ValidSlice(Other, called.before.arrays)) =>
        /\ called.ret.kind = "Ok"
        /\ SliceLen(Target) = SliceLen(TargetBefore) + SliceLen(Other)
        /\ Elems(Target, arrays) =
              Elems(TargetBefore, called.before.arrays) \o Elems(Other, called.before.arrays)

\* ------------------------------------------------- closures made by LITERAL
\* the frames of the up-value's fiber that are the activation it captured from
Captured(uv) ==
    {i \in 0..(Len(frames[uv.fiber]) - 1) : At(frames[uv.fiber], i).serial = uv.cell.serial}

\* C32: an up-value made by LITERAL whose defining function had an active
\* frame on the fiber, at any depth (the bottom frame included), has the index
\* of the nearest such frame and is registered under its local index in that
\* frame's referred_by, for as long as the frame is active
C32_LiteralRegisters ==
    \A u \in DOMAIN upvalues :
        LET uv == upvalues[u] IN
        (uv.open /\ uv.cell # NoCell /\ Captured(uv) # {}) =>
            /\ uv.frame \in Captured(uv)
            /\ [index |-> uv.index, uv |-> u] \in At(frames[uv.fiber], uv.frame).referred_by

\* ------------------------------------------------------------ calls and returns
\* the serial numbers of a sequence of frames (each PRE_CALL makes the next one)
Serials(frs) == {frs[i].serial : i \in 1..Len(frs)}

\* C38: calls follow a stack discipline. A CALL pushes the frame of the most
\* recent PRE_CALL not yet called and leaves the other pending frames;
\* RETURN of a callee leaves the frames below it as they were (the depth from
\* before the CALL, the caller on top, which the dispatcher resumes) and the
\* stack at the callee's stack_base plus its return count.
C38_CallDiscipline ==
    [][\A f \in Fibers :
        /\ (frames[f] # <<>> /\ Len(frames'[f]) = Len(frames[f]) + 1) =>
              /\ next_frames[f] # <<>>
              /\ \A s \in Serials(next_frames[f]) : s <= Top(frames'[f]).serial
              /\ Top(frames'[f]).serial \in Serials(next_frames[f])
              /\ Top(frames'[f]).stack_base = Top(next_frames[f]).stack_base
              /\ next_frames'[f] = PopN(next_frames[f], 1)
              /\ Serials(next_frames'[f]) = Serials(next_frames[f]) \ {Top(frames'[f]).serial}
        /\ (Len(frames[f]) > 1 /\ Len(frames'[f]) = Len(frames[f]) - 1
                /\ CurInst(f).op = "RETURN") =>
              /\ Len(stack'[f]) = TopFrame(f).stack_base + FuncOf(TopFrame(f)).ret_count
              /\ frames'[f] = PopN(frames[f], 1)
              /\ next_frames'[f] = next_frames[f]
      ]_vars

\* apply(seven()) has returned 7 to the entry function: the frame of apply
\* waited while seven was called and returned
C38_Witness ==
    /\ entry["f1"] = "main_nested"
    /\ Len(frames["f1"]) = 1
    /\ next_frames["f1"] = <<>>
    /\ At(pkg, 2) = IntVal(7)

\* ---------------------------------------------------- simultaneous range loops
\* the stack positions of the marks of the ranges a fiber is iterating: a
\* stamped mark lies above its container until the loop is left (the POP
\* behind the loop, or the truncation of RETURN, removes both)
ActiveRanges(f) ==
    {i \in 2..Len(stack[f]) :
        /\ stack[f][i - 1].t = "Slice"
        /\ stack[f][i].t = "Int"
        /\ stack[f][i].n >= 0}

\* C31: no two ranges that a fiber is iterating at the same time have the
\* same slot, whatever RANGE_INIT and RANGE steps, exhausted loops, early
\* exits and calls or returns inside loop bodies came before
C31_SlotsDistinct ==
    \A f \in Fibers :
        \A i, j \in ActiveRanges(f) : i # j => stack[f][i].n # stack[f][j].n

\* an inner loop iterates on slot 3 while the outer loop holds slot 0: the
\* slots 1 and 2 went to a loop left by break and to one left by return
C31_Witness ==
    /\ entry["f1"] = "main_mixed"
    /\ {stack["f1"][i].n : i \in ActiveRanges("f1")} = {0, 3}
    /\ range_slot["f1"] = 4

\* ------------------------------------------------- field maps and metadata
\* the struct type behind a field's type, or "" if it is no struct
StructOf(typ) ==
    LET t == tc_objs.types[typ]
        u == IF t.kind = "Named" THEN t.underlying ELSE typ
    IN  IF tc_objs.types[u].kind = "Struct" THEN u ELSE ""

\* the declarations of names that a struct type reaches, each with its index
\* path: its own fields, and those of the structs it embeds
RECURSIVE Declared(_)
Declared(styp) ==
    LET fields == tc_objs.types[styp].fields
    IN  UNION {
          {[name |-> fields[i].name, path |-> <<i - 1>>]}
          \cup (IF fields[i].embedded /\ StructOf(fields[i].typ) # ""
                THEN {[name |-> d.name, path |-> <<i - 1>> \o d.path] :
                          d \in Declared(StructOf(fields[i].typ))}
                ELSE {})
          : i \in 1..Len(fields)}

\* the struct types whose metadata has been made, each with its field-name map
StructMaps ==
    {[typ |-> p.typ, mapping |-> lookup.metas[p.meta.key].fields.mapping] :
        p \in {q \in lookup.made : tc_objs.types[q.typ].kind = "Struct"}}

\* C33: in the field-name map of a struct, a name declared by the struct and
\* by an embedded struct, or by embedded structs at different depths,
\* resolves to a shallowest declaration, in whatever order the fields appear
C33_ShallowerWins ==
    \A sm \in StructMaps :
        \A d \in Declared(sm.typ) :
            /\ d.name \in DOMAIN sm.mapping
            /\ Len(sm.mapping[d.name]) <= Len(d.path)

\* C34: during one code generation every type key has exactly one Meta,
\* whatever the order of the tc_type_to_meta calls and however the type is
\* reached (directly, as a field, as an array element, through a recursive
\* named type); the placeholder of a named type and its filled entry are the
\* same Meta, and the cache holds it
C34_OneMetaPerType ==
    /\ \A p, q \in lookup.made : p.typ = q.typ => p.meta = q.meta
    /\ \A typ \in DOMAIN lookup.types_cache :
          [typ |-> typ, meta |-> lookup.types_cache[typ]] \in lookup.made

\* ------------------------------------------------------------------ imports
\* how many times the importer ran for a key
Runs(key) == Cardinality({i \in 1..Len(checker.imports) : checker.imports[i] = key})

====
